---- MODULE Spec2Model ----
(***************************************************************************)
(* The OAuth 2.0 token lifecycle of XInteractor (src/src/x_interactor.py)  *)
(* as it is driven by scripts/kickoff.py: one XInteractor object, shared   *)
(* by the timeline thread and the engagement thread.                       *)
(*                                                                         *)
(* A thread's step runs from one point where another thread can observe    *)
(* or change the shared fields to the next: reading a field into a local   *)
(* (the `data` dict, the `auth_header` dict) and the blocking HTTP call    *)
(* that transmits the local are different steps, because requests.post     *)
(* blocks (connect, TLS) before anything is transmitted.                   *)
(*                                                                         *)
(* Spec follows the two threads on the shared object. AuthSpec follows the *)
(* one caller of the authorization phase over every client configuration,  *)
(* RequestSpec one caller of the platform operations with the tokens of    *)
(* the token file, and PassSpec one pass of VibeBot.timeline_interface     *)
(* (src/src/vibebot.py) over the timeline the platform returns. LoopSpec   *)
(* follows timeline_loop of kickoff.py, pass after pass, with the fairness *)
(* of a thread that is scheduled and whose calls and sleeps return.        *)
(* EngagementSpec follows one pass of VibeBot.get_engagement_metrics over  *)
(* the posts of bot_db and the snapshots it leaves in engagement_db.       *)
(***************************************************************************)
EXTENDS Integers, Sequences, FiniteSets, TLC

\* ---------------------------------------------------------------- bounds
MaxTime == 2
MaxIssue == 2
NumNonces == 2
MaxRequestTime == 3
\* the retry budget C16 is stated with
RetryBudget == 1
\* the longest data array of a timeline response
MaxTweets == 2
\* the longest data array of the timeline responses the loop is followed over
LoopTweets == 1

\* ------------------------------------------------------------- constants
\* expires_in = token_data.get("expires_in", 7200)
DefaultExpiresIn == 7200
\* the expires_in values the platform sends besides omitting the field: a
\* token that is valid at the instant it is issued and expired one tick later
ExpiresInValues == {0}

\* the two threads of kickoff.main that call into the shared XInteractor
Threads == {"tl", "eng"}
\* The auth operations start only while every thread is idle, so which thread
\* runs them makes no difference: one is named.
AuthThreads == {"tl"}
Accounts == {"u1"}
\* config.user_id, the account the bot is configured as, and the authors of
\* the tweets of its timeline
ConfigUserId == "u1"
Authors == {"u1", "u2"}
\* `"max_results": min(max_tweets, 100),  # API limit is 100`
ApiLimit == 100
\* def get_timeline(self, user_id: str = None, max_tweets: int = 50)
DefaultMaxTweets == 50
\* `if len(reply) > 280:`
TweetLimit == 280
\* `reply = reply[:277] + "..."`
KeptChars == 277
Ellipsis == <<".", ".", ".">>
\* `time.sleep(interval_minutes * 60)`
SecondsPerMinute == 60
\* `time.sleep(60)  # Wait a minute before retrying`
RetryDelaySeconds == 60
\* the values of config.loop.tl_retrieval_interval (a float of any sign)
Intervals == {-1, 1}

\* Python None for the token fields and for user_id
Null == <<>>
NoUser == "none"
\* token_expiry None (or 0): falsy in `self.token_expiry and ...`
NoExpiry == 0

\* the values the platform issues: the k-th access token and refresh token
AT(k) == <<"at", k>>
RT(k) == <<"rt", k>>
\* the static app-only bearer token of the constructor
Bearer == <<"bearer">>
\* the client secret of the constructor
Secret == <<"secret">>

VARIABLES
    access_token,   \* self.access_token
    refresh_token,  \* self.refresh_token
    token_expiry,   \* self.token_expiry
    user_id,        \* self.user_id
    bearer_token,   \* self.bearer_token
    supabase,       \* self.supabase is not None
    is_confidential_client, \* self.is_confidential_client
    client_secret,  \* self.client_secret
    code_verifier,  \* self.code_verifier
    code_challenge, \* self.code_challenge
    horizon,        \* the last instant the run covers
    store,          \* the oauth_tokens table, one row per account
    now,            \* time.time()
    issued,         \* how many token sets the platform has issued
    url_state,      \* the state parameter of the authorization URL of the flow (0: no flow)
    url_challenge,  \* the code_challenge of the authorization URL of the flow (0: no flow)
    used_challenges, \* the code_challenge values of all authorization URLs so far
    prev_revoke,    \* the revoke_token call that succeeded just before, if any
    pc,             \* per thread: where it stands
    op,             \* per thread: the public operation it runs
    cb_state,       \* per thread: the `state` argument of handle_callback
    token_data,     \* per thread: the parsed body of the token response
    exch_time,      \* per thread: time.time() when handle_callback set token_expiry
    data,           \* per thread: the token in the `data` dict of its request
    hdr,            \* per thread: the token in its `auth_header`
    resp,           \* per thread: the HTTP response it got last ({}: none)
    wake,           \* per thread: the instant time.sleep returns
    cause,          \* per thread: which `return None` ended the request
    nref,           \* per thread: _refresh_access_token calls of its expiry check
    nexch,          \* per thread: token requests sent by its handle_callback
    ret,            \* per thread: the value the operation returned
    token_arg,      \* per thread: the `token` argument of revoke_token
    ident,          \* per thread: how its token or revoke request names the client
    sent_verifier,  \* per thread: the code_verifier of its token request (0: none)
    kind,           \* per thread: the platform operation that made the request
    nsend,          \* per thread: API requests sent by its call
    n429,           \* per thread: 429 responses its call received
    max_results,    \* per thread: params["max_results"] of its get_timeline (0: none)
    refresh_status, \* per thread: TRUE while the call's refresh stands failed by the token endpoint (no response, or a status that is not 2xx)
    tl_retrieval_length, \* config.loop.tl_retrieval_length
    tweets_data,    \* the data array the platform answers a timeline request with
    tl_pc,          \* where timeline_interface stands
    reply_to_tweets, \* the reply_to_tweets argument of timeline_interface
    timeline,       \* timeline_interface: the list get_timeline returned
    pos,            \* timeline_interface: the position of the loop in timeline
    responded_to,   \* timeline_interface: responded_to
    ignored,        \* timeline_interface: ignored
    consulted,      \* the ids of the tweets the model was asked about
    reply_calls,    \* the ids of the tweets reply_to_tweet was called for
    bot_db,         \* the rows of the bot_db table
    response,       \* the answer of the gate for the tweet of the iteration ({}: none)
    generated,      \* the text the model wrote as the reply of the iteration ({}: none)
    reply_text,     \* timeline_interface: reply_text of the iteration ({}: none)
    verdicts,       \* per tweet the loop has decided: the verdict and the reply text
    posted,         \* the reply ids reply_to_tweet has returned
    generated_for,  \* the ids of the tweets the model wrote a reply to
    interval_minutes, \* timeline_loop: config.loop.tl_retrieval_interval
    caught,         \* timeline_loop: its last pass ended in the except clause
    slept,          \* timeline_loop: the seconds of its time.sleep ({}: none yet)
    replied_ever,   \* the ids of the tweets a reply was posted to, over all passes
    eng_pc,         \* where VibeBot.get_engagement_metrics stands
    posts,          \* get_engagement_metrics: the post ids of bot_db.get_all_posts()
    eng_pos,        \* get_engagement_metrics: the position of its loop in posts
    engagement_db,  \* per post id: the row of the engagement_db table ({}: none)
    collected       \* per post the loop is done with: what its metrics fetch returned

shared == <<access_token, refresh_token, token_expiry, user_id, store>>
tokens == <<access_token, refresh_token, token_expiry>>
config == <<bearer_token, supabase, is_confidential_client, client_secret,
           code_verifier, code_challenge, horizon>>
hist == <<url_challenge, used_challenges, prev_revoke>>
calls == <<token_arg, ident, sent_verifier, kind, nsend, n429>>
locals == <<cb_state, token_data, exch_time, data, hdr, resp, wake, cause, nref, nexch, ret>>
\* what timeline_loop keeps besides the pass
loop == <<interval_minutes, caught, slept>>
pass == <<tl_retrieval_length, tweets_data, tl_pc, reply_to_tweets, timeline, pos,
         responded_to, ignored, consulted, reply_calls, bot_db, response,
         generated, reply_text, verdicts, posted, generated_for,
         interval_minutes, caught, slept, replied_ever>>
\* what VibeBot.get_engagement_metrics keeps
collection == <<eng_pc, posts, eng_pos, engagement_db, collected>>

vars == <<access_token, refresh_token, token_expiry, user_id, bearer_token,
          supabase, store, now, issued, url_state, pc, op, cb_state,
          token_data, exch_time, data, hdr, resp, wake, cause, nref, nexch, ret,
          is_confidential_client, client_secret, code_verifier, code_challenge,
          horizon, url_challenge, used_challenges, prev_revoke,
          token_arg, ident, sent_verifier, kind, nsend, n429, max_results,
          refresh_status,
          tl_retrieval_length, tweets_data, tl_pc, reply_to_tweets, timeline, pos,
          responded_to, ignored, consulted, reply_calls, bot_db, response,
          generated, reply_text, verdicts, posted, generated_for,
         interval_minutes, caught, slept, replied_ever,
          eng_pc, posts, eng_pos, engagement_db, collected>>

\* ------------------------------------------------------------ the records
\* the row _save_tokens_to_supabase upserts
TokenData(at, rt, te) ==
    [present |-> TRUE, access_token |-> at, refresh_token |-> rt, token_expiry |-> te]

NoRecord ==
    [present |-> FALSE, access_token |-> Null, refresh_token |-> Null,
     token_expiry |-> NoExpiry]

\* An HTTP response: status (0: no response at all, a ConnectionError), whether
\* the body is JSON, the optional fields of a token body ({}: absent), the
\* x-rate-limit-reset header and the id of the data of /users/me.
Response(s, j, at, rt, ei, rs, id) ==
    [status |-> s, json |-> j, access_token |-> at, refresh_token |-> rt,
     expires_in |-> ei, reset |-> rs, id |-> id]

\* what the token endpoint can answer once it has issued k token sets
TokenResponses(k) ==
    {Response(0, FALSE, {}, {}, {}, {}, NoUser)}
    \cup {Response(s, TRUE, {}, {}, {}, {}, NoUser) : s \in {400, 500}}
    \cup {Response(200, FALSE, {}, {}, {}, {}, NoUser)}
    \cup {Response(200, TRUE, at, rt, ei, {}, NoUser) :
            at \in {{}, {AT(k + 1)}}, rt \in {{}, {RT(k + 1)}},
            ei \in {{}} \cup {{v} : v \in ExpiresInValues}}

\* what an API endpoint can answer to operation o
ApiResponses(o) ==
    {Response(0, FALSE, {}, {}, {}, {}, NoUser)}
    \cup {Response(500, TRUE, {}, {}, {}, {}, NoUser)}
    \cup {Response(200, TRUE, {}, {}, {}, {}, id) :
            id \in IF o = "callback" THEN Accounts \cup {NoUser} ELSE {NoUser}}
    \cup {Response(429, TRUE, {}, {}, {}, rs, NoUser) :
            rs \in {{}, {now - 1}, {now + 1}}}

\* what the revoke endpoint can answer
RevokeResponses ==
    {Response(s, TRUE, {}, {}, {}, {}, NoUser) : s \in {0, 200, 400, 500}}

\* the one element of a local that holds an optional value
The(x) == CHOOSE v \in x : TRUE

\* dict.get(key, default) on an optional field
Get(field, default) == IF field = {} THEN default ELSE CHOOSE v \in field : TRUE

\* -------------------------------------------------- the code's decisions
\* a raise_for_status that lets every status pass
RaiseForStatusNever(status) == FALSE

\* Response.raise_for_status: HTTPError for 4xx and 5xx
RaiseForStatus(status) == status >= 400 /\ status < 600

\* a token request without the raise_for_status call
PostRaisesOnlyWithoutResponse(r) == r.status = 0

\* requests.post(...); response.raise_for_status() raises a RequestException
PostRaises(r) == r.status = 0 \/ RaiseForStatus(r.status)

\* ... and so does response.json() on a body that is no JSON
JsonRaises(r) == ~r.json

\* an expiry check that already fires at the instant of expiry
NeedsRefreshAtExpiry(at, te, t) == at # Null /\ te # NoExpiry /\ t >= te

\* a request path without the expiry check
NeedsRefreshNever(at, te, t) == FALSE

\* if self.access_token and self.token_expiry and time.time() > self.token_expiry
NeedsRefresh(at, te, t) == at # Null /\ te # NoExpiry /\ t > te

\* a _refresh_access_token without the early return
CanRefreshAlways(rt) == TRUE

\* _refresh_access_token: `if not self.refresh_token: return False` is not taken
CanRefresh(rt) == rt # Null

\* a header that prefers the static bearer token
AuthHeaderBearerFirst(at, bt) == IF bt # Null THEN bt ELSE IF at # Null THEN at ELSE Null

\* the token of the Authorization header; Null: "No authentication token available"
AuthHeader(at, bt) == IF at # Null THEN at ELSE IF bt # Null THEN bt ELSE Null

\* self.token_expiry = time.time() + expires_in
ExpiresAt(t, r) == t + Get(r.expires_in, DefaultExpiresIn)

\* handle_callback: self.access_token = token_data.get("access_token"), ...
ExchangedAccessToken(r) == Get(r.access_token, Null)
ExchangedRefreshToken(r) == Get(r.refresh_token, Null)

\* _refresh_access_token: self.access_token = token_data.get("access_token")
RefreshedAccessToken(r) == Get(r.access_token, Null)

\* _refresh_access_token: if "refresh_token" in token_data: self.refresh_token = ...
RotatedRefreshToken(old, r) == Get(r.refresh_token, old)

\* a rate-limit test that never fires
RateLimitedNever(r) == FALSE

\* if response.status_code == 429
RateLimited(r) == r.status = 429

\* a wait without the extra second
WaitTimeToReset(r, t) ==
    LET reset_time == Get(r.reset, 0)
    IN  IF reset_time - t > 0 THEN reset_time - t ELSE 0

\* wait_time = max(reset_time - time.time(), 0) + 1
WaitTime(r, t) ==
    LET reset_time == Get(r.reset, 0)
    IN  (IF reset_time - t > 0 THEN reset_time - t ELSE 0) + 1

\* revoke_token: token_to_revoke = token or self.access_token
TokenToRevoke(token, at) == IF token # Null THEN token ELSE at

\* revoke_token: if token_to_revoke == self.access_token: self.access_token = None
\*               elif token_to_revoke == self.refresh_token: self.refresh_token = None
AccessTokenAfterRevoke(tok, at) == IF tok = at THEN Null ELSE at
\* a revoke that drops the refresh token together with the access token
RefreshTokenClearedOnRevoke(tok, at, rt) == IF tok = at \/ tok = rt THEN Null ELSE rt
RefreshTokenAfterRevoke(tok, at, rt) ==
    IF tok = at THEN rt ELSE IF tok = rt THEN Null ELSE rt
TokenExpiryAfterRevoke(tok, at, te) == te

\* how a token or revoke request names the client: _get_basic_auth_header adds
\* the Basic header `if not (not self.is_confidential_client or not
\* self.client_secret)`; `if not self.is_confidential_client:` puts client_id
\* into the body
ClientIdentification(conf, secret) ==
    (IF conf /\ secret # Null THEN {"basic"} ELSE {})
    \cup (IF ~conf THEN {"client_id"} ELSE {})

\* a challenge that is not the verifier itself
CodeChallengeShifted(verifier) == verifier + 1

\* self.code_challenge = self.code_verifier  # Using plain method
CodeChallenge(verifier) == verifier

\* `if self.user_id and self.supabase: self._save_tokens_to_supabase()`: the
\* upsert of the row of uid; ok = FALSE: the upsert fails and is only logged
SaveTokens(st, sb, uid, at, rt, te, ok) ==
    IF sb /\ uid # NoUser /\ ok
    THEN [st EXCEPT ![uid] = TokenData(at, rt, te)]
    ELSE st

\* _get_user_info: if response and response.status_code == 200:
\*     self.user_id = user_data.get("id")
UserIdAfterLookup(uid, rs) ==
    IF rs # {} /\ (CHOOSE r \in rs : TRUE).status = 200
    THEN (CHOOSE r \in rs : TRUE).id
    ELSE uid

\* ------------------------------------------------ the platform operations
\* the public operations that go through _make_authenticated_request
Operations ==
    {"get_timeline", "post_tweet", "reply_to_tweet", "quote_tweet",
     "get_engagement_metrics", "follow_user", "unfollow_user",
     "get_user_by_username"}

\* `response.status_code != 201` for the three that POST /tweets, `!= 200` for
\* the others
ExpectedStatus(o) ==
    IF o \in {"post_tweet", "reply_to_tweet", "quote_tweet"} THEN 201 ELSE 200

\* get_timeline (called without user_id), follow_user and unfollow_user return
\* at once `if not self.user_id`
NeedsUserId(o) == o \in {"get_timeline", "follow_user", "unfollow_user"}

\* what each operation returns on its failure paths
FailureValue(o) ==
    CASE o = "get_timeline" -> "[]"
      [] o = "get_engagement_metrics" -> "{}"
      [] o \in {"follow_user", "unfollow_user"} -> "False"
      [] OTHER -> "None"

\* `if not response or response.status_code != <expected>: return <failure>`,
\* then the payload of the body: the tweets, data.id, the metrics, users[0];
\* body = {}: the body carries no such payload
OperationResult(o, rs, body) ==
    IF rs = {} \/ (CHOOSE r \in rs : TRUE).status # ExpectedStatus(o)
    THEN FailureValue(o)
    ELSE IF o \in {"follow_user", "unfollow_user"} THEN "True"
    ELSE IF body = {} THEN FailureValue(o)
    ELSE "data"

\* the answers of the API beyond ApiResponses: 201 Created, 204 No Content
CreatedResponses ==
    {Response(s, TRUE, {}, {}, {}, {}, NoUser) : s \in {201, 204}}

\* "max_results": min(max_tweets, 100)
MaxResults(max_tweets) == IF max_tweets < ApiLimit THEN max_tweets ELSE ApiLimit

\* ---------------------------------------------------------- the timeline
\* An element of the data array: the id and the optional author_id.
TweetData(id, author) == [id |-> id, author_id |-> author]

\* the data arrays of n elements, newest first
DataArrays(n) ==
    {[i \in 1..n |-> TweetData(n + 1 - i, a[i])] :
        a \in [1..n -> {{}} \cup {{u} : u \in Authors}]}

\* Tweet(tweet_id=tweet_data.get("id"), author_id=tweet_data.get("author_id"), ...)
Tweet(tweet_data) ==
    [id |-> tweet_data.id, author_id |-> Get(tweet_data.author_id, NoUser)]

\* the list in the opposite order
TweetsReversed(arr) == [i \in 1..Len(arr) |-> Tweet(arr[Len(arr) + 1 - i])]
\* lines 467-478: `for tweet_data in tweets_data: ... tweets.append(tweet)`
Tweets(arr) == [i \in 1..Len(arr) |-> Tweet(arr[i])]

\* a gate that takes no tweet for the bot's own
SelfAuthoredNever(tweet) == FALSE
\* vibebot.py 181: `if tweet.author_id == self.config.user_id`
SelfAuthored(tweet) == tweet.author_id = ConfigUserId

\* the id the platform gives the reply to tweet id
ReplyId(id) == <<"reply", id>>

\* ----------------------------------------------------- the model's texts
\* A text is the sequence of its characters.
Chars(n) == [i \in 1..n |-> "a"]

\* what _generate_text can return to the gate: "" (also its value when the
\* model call raised, lines 167-169), "YES", "yes.", " Yes", "Y", "NO"
GateAnswers ==
    {<<>>, <<"Y", "E", "S">>, <<"y", "e", "s", ".">>, <<" ", "Y", "e", "s">>,
     <<"Y">>, <<"N", "O">>}

\* what _generate_text can return as a reply: "", a text of 280 characters, a
\* text of 281 characters
GeneratedTexts == {Chars(0), Chars(TweetLimit), Chars(TweetLimit + 1)}

Whitespace == {" ", "\n", "\t"}

\* str.strip()
RECURSIVE LStrip(_)
LStrip(text) ==
    IF text # <<>> /\ Head(text) \in Whitespace THEN LStrip(Tail(text)) ELSE text
RECURSIVE RStrip(_)
RStrip(text) ==
    IF text # <<>> /\ text[Len(text)] \in Whitespace
    THEN RStrip(SubSeq(text, 1, Len(text) - 1))
    ELSE text
Strip(text) == RStrip(LStrip(text))

\* str.upper()
UpperChar(c) ==
    CASE c = "y" -> "Y" [] c = "e" -> "E" [] c = "s" -> "S"
      [] c = "n" -> "N" [] c = "o" -> "O" [] c = "a" -> "A"
      [] OTHER -> c
Upper(text) == [i \in 1..Len(text) |-> UpperChar(text[i])]

\* str.startswith(prefix)
StartsWith(text, prefix) ==
    Len(text) >= Len(prefix) /\ SubSeq(text, 1, Len(prefix)) = prefix

\* a gate that compares without normalizing the case
ShouldReplyCaseSensitive(answer) == StartsWith(Strip(answer), <<"Y", "E", "S">>)
\* vibebot.py 200: `return response.strip().upper().startswith("YES")`
ShouldReply(answer) == StartsWith(Upper(Strip(answer)), <<"Y", "E", "S">>)

\* a cut that keeps 280 characters before the marker
CommittedReplyKeepingLimit(text) ==
    IF Len(text) > TweetLimit THEN SubSeq(text, 1, TweetLimit) \o Ellipsis ELSE text
\* vibebot.py 229-232: `if len(reply) > 280: reply = reply[:277] + "..."`
CommittedReply(text) ==
    IF Len(text) > TweetLimit THEN SubSeq(text, 1, KeptChars) \o Ellipsis ELSE text

\* a pass that posts its replies whatever its argument
PostsReplyAlways(commit) == TRUE
\* vibebot.py 258: `if reply_to_tweets:`
PostsReply(commit) == commit

\* a list that grows at its head
ListPrepend(list, x) == <<x>> \o list
\* list.append(x)
ListAppend(list, x) == Append(list, x)

\* a row without the reply flag
PostRowUnflagged(reply_id, tweet, text) ==
    [post_id |-> reply_id, content_gen_prompt |-> tweet.id, content |-> text,
     is_reply |-> FALSE]
\* the row bot_db.add_post inserts (vibebot.py 266-272, bot_db.py 33-40)
PostRow(reply_id, tweet, text) ==
    [post_id |-> reply_id, content_gen_prompt |-> tweet.id, content |-> text,
     is_reply |-> TRUE]

\* a loop that leaves out every other tweet
NextPosSkipping(i) == i + 2
\* `for tweet in timeline:` goes on to the next tweet
NextPos(i) == i + 1

\* ------------------------------------------------------------ engagement
\* the ids of the posts the bot_db table can hold
PostIds == {ReplyId(k) : k \in 1..MaxTweets}
\* the counts a metrics field can carry
Counts == {0, 1}
\* the dict XInteractor.get_engagement_metrics returns on its failure paths
NoMetrics == <<>>
\* The dict it returns for a 200 response with data (x_interactor.py 595-610):
\* public_metrics, non_public_metrics and organic_metrics merged, under the
\* field names of the platform's answer. The platform names its counts
\* like_count, retweet_count, quote_count and reply_count; a body under the
\* keys VibeBot.get_engagement_metrics reads is followed as well.
PlatformMetrics ==
    {[like_count |-> l, retweet_count |-> r, quote_count |-> q, reply_count |-> 0] :
        l \in Counts, r \in Counts, q \in Counts}
ReadKeyMetrics ==
    {[likes |-> l, retweets |-> r, quotes |-> q, comments |-> <<>>] :
        l \in Counts, r \in Counts, q \in {<<>>, <<"quote">>}}
MetricsBodies == PlatformMetrics \cup ReadKeyMetrics

\* vibebot.py 314, 322, 333-334: metrics["quotes"], metrics["comments"],
\* metrics["likes"], metrics["retweets"] raise KeyError for a missing key
ReadsRaise(metrics) ==
    ~({"quotes", "comments", "likes", "retweets"} \subseteq DOMAIN metrics)

\* lines 311-328: the file a non-empty list is dumped to, None otherwise
Filepath(dir, post_id, list) == IF list = <<>> THEN {} ELSE {<<dir, post_id>>}

\* the row add_engagement upserts (retrieval_time left out)
EngagementRow(post_id, metrics) ==
    [likes |-> metrics.likes, retweets |-> metrics.retweets,
     quotes_filepath |-> Filepath("data/quotes", post_id, metrics.quotes),
     comments_filepath |-> Filepath("data/comments", post_id, metrics.comments)]

\* a row of an earlier collection
EarlierRow ==
    [likes |-> 0, retweets |-> 0, quotes_filepath |-> {}, comments_filepath |-> {}]

\* engagement_db.py 33-45: INSERT ... ON CONFLICT (post_id) DO UPDATE
Upsert(table, post_id, row) == [table EXCEPT ![post_id] = {row}]

\* no get_engagement_metrics call is part of the run
NoCollection ==
    /\ eng_pc = "off"
    /\ posts = <<>>
    /\ eng_pos = 1
    /\ engagement_db = [p \in PostIds |-> {}]
    /\ collected = <<>>

\* no timeline_interface call is part of the run
NoPass ==
    /\ tl_retrieval_length = DefaultMaxTweets
    /\ tweets_data = <<>>
    /\ tl_pc = "off"
    /\ reply_to_tweets = FALSE
    /\ timeline = <<>>
    /\ pos = 1
    /\ responded_to = <<>>
    /\ ignored = <<>>
    /\ consulted = <<>>
    /\ reply_calls = <<>>
    /\ bot_db = <<>>
    /\ response = {}
    /\ generated = {}
    /\ reply_text = {}
    /\ verdicts = <<>>
    /\ posted = <<>>
    /\ generated_for = <<>>
    /\ caught = FALSE
    /\ slept = {}
    /\ replied_ever = {}
    /\ interval_minutes = 1

\* ------------------------------------------------------------------ Init
\* The object after __init__ with no stored tokens to load, constructed as
\* kickoff.py 98-102 and vibebot.py 31-35 construct it: without bearer_token.
Init ==
    /\ access_token = Null
    /\ refresh_token = Null
    /\ token_expiry = NoExpiry
    /\ user_id = NoUser
    /\ bearer_token = Null
    /\ supabase \in BOOLEAN
    /\ store = [a \in Accounts |-> NoRecord]
    /\ now = 1
    /\ issued = 0
    /\ url_state = 0
    /\ pc = [t \in Threads |-> "idle"]
    /\ op = [t \in Threads |-> "none"]
    /\ cb_state = [t \in Threads |-> 0]
    /\ token_data = [t \in Threads |-> {}]
    /\ exch_time = [t \in Threads |-> 0]
    /\ data = [t \in Threads |-> Null]
    /\ hdr = [t \in Threads |-> Null]
    /\ resp = [t \in Threads |-> {}]
    /\ wake = [t \in Threads |-> 0]
    /\ cause = [t \in Threads |-> "none"]
    /\ nref = [t \in Threads |-> 0]
    /\ nexch = [t \in Threads |-> 0]
    /\ ret = [t \in Threads |-> "none"]
    \* a confidential client with its secret; the other clients and the other
    \* verifiers are those of InitAuth
    /\ is_confidential_client = TRUE
    /\ client_secret = Secret
    /\ code_verifier = 1
    /\ code_challenge = CodeChallenge(code_verifier)
    /\ horizon = MaxTime
    /\ url_challenge = 0
    /\ used_challenges = {}
    /\ prev_revoke = {}
    /\ token_arg = [t \in Threads |-> Null]
    /\ ident = [t \in Threads |-> {}]
    /\ sent_verifier = [t \in Threads |-> 0]
    /\ kind = [t \in Threads |-> "none"]
    /\ nsend = [t \in Threads |-> 0]
    /\ n429 = [t \in Threads |-> 0]
    /\ max_results = [t \in Threads |-> 0]
    /\ refresh_status = [t \in Threads |-> FALSE]
    /\ NoPass
    /\ NoCollection

\* the auth operations run while no other call is in progress (kickoff.py runs
\* setup_x_interactor before it starts the threads)
AllIdle == \A u \in Threads : pc[u] = "idle"
NoAuthOp == \A u \in Threads : pc[u] # "idle" => op[u] = "request"

\* time.time() advances
Tick ==
    /\ now < horizon
    /\ now' = now + 1
    /\ UNCHANGED <<refresh_status, max_results, pass, collection, hist, calls, shared, config, locals, issued, url_state, pc, op>>

\* The caller has read the return value; the frame of the call is gone.
done(t) ==
    /\ pc[t] = "returned"
    /\ pc' = [pc EXCEPT ![t] = "idle"]
    /\ op' = [op EXCEPT ![t] = "none"]
    /\ cb_state' = [cb_state EXCEPT ![t] = 0]
    /\ token_data' = [token_data EXCEPT ![t] = {}]
    /\ exch_time' = [exch_time EXCEPT ![t] = 0]
    /\ data' = [data EXCEPT ![t] = Null]
    /\ hdr' = [hdr EXCEPT ![t] = Null]
    /\ resp' = [resp EXCEPT ![t] = {}]
    /\ wake' = [wake EXCEPT ![t] = 0]
    /\ cause' = [cause EXCEPT ![t] = "none"]
    /\ nref' = [nref EXCEPT ![t] = 0]
    /\ nexch' = [nexch EXCEPT ![t] = 0]
    /\ ret' = [ret EXCEPT ![t] = "none"]
    /\ url_state' = 0
    /\ url_challenge' = 0
    /\ prev_revoke' = IF op[t] = "revoke" /\ ret[t] = "True"
                      THEN {[token |-> token_arg[t], tokens |-> tokens, store |-> store]}
                      ELSE {}
    /\ token_arg' = [token_arg EXCEPT ![t] = Null]
    /\ ident' = [ident EXCEPT ![t] = {}]
    /\ sent_verifier' = [sent_verifier EXCEPT ![t] = 0]
    /\ kind' = [kind EXCEPT ![t] = "none"]
    /\ nsend' = [nsend EXCEPT ![t] = 0]
    /\ n429' = [n429 EXCEPT ![t] = 0]
    /\ max_results' = [max_results EXCEPT ![t] = 0]
    /\ refresh_status' = [refresh_status EXCEPT ![t] = FALSE]
    /\ UNCHANGED <<pass, collection, used_challenges, shared, config, now, issued>>

\* ------------------------------------------ get_authorization_url (190-210)
\* a URL construction that starts the flow by dropping the tokens held
get_authorization_url_dropping_tokens(t) ==
    /\ AllIdle
    /\ \E state \in 1..NumNonces : url_state' = state
    /\ url_challenge' = code_challenge
    /\ used_challenges' = used_challenges \cup {code_challenge}
    /\ prev_revoke' = {}
    /\ op' = [op EXCEPT ![t] = "callback"]
    /\ pc' = [pc EXCEPT ![t] = "awaiting_callback"]
    /\ access_token' = Null
    /\ UNCHANGED <<refresh_status, max_results, pass, collection, calls, refresh_token, token_expiry, user_id,
                   store, config, locals, now, issued>>

\* A random state goes into the URL and is kept nowhere in the object. The
\* caller then waits for the redirect (kickoff.py 115-125).
get_authorization_url(t) ==
    /\ AllIdle
    /\ \E state \in 1..NumNonces : url_state' = state
    /\ url_challenge' = code_challenge
    /\ used_challenges' = used_challenges \cup {code_challenge}
    /\ prev_revoke' = {}
    /\ op' = [op EXCEPT ![t] = "callback"]
    /\ pc' = [pc EXCEPT ![t] = "awaiting_callback"]
    /\ UNCHANGED <<refresh_status, max_results, pass, collection, calls, shared, config, locals, now, issued>>

\* ------------------------------------------------ handle_callback (212-263)
\* Lines 222-242: the headers and the data dict are built and the POST to the
\* token endpoint is sent; the state argument is not read.
handle_callback(t, state) ==
    /\ pc[t] = "awaiting_callback"
    /\ cb_state' = [cb_state EXCEPT ![t] = state]
    /\ nexch' = [nexch EXCEPT ![t] = nexch[t] + 1]
    /\ ident' = [ident EXCEPT ![t] =
                    ClientIdentification(is_confidential_client, client_secret)]
    /\ sent_verifier' = [sent_verifier EXCEPT ![t] = code_verifier]
    /\ pc' = [pc EXCEPT ![t] = "token_wait"]
    /\ UNCHANGED <<refresh_status, max_results, pass, collection, hist, token_arg, kind, nsend, n429, shared, config, now, issued, url_state, op, token_data, exch_time,
                   data, hdr, resp, wake, cause, nref, ret>>

\* Lines 242-254 and 261-263: the token endpoint answers r.
handle_callback_response(t, r) ==
    /\ pc[t] = "token_wait"
    /\ (r.access_token # {} \/ r.refresh_token # {}) => issued < MaxIssue
    /\ resp' = [resp EXCEPT ![t] = {r}]
    /\ ident' = [ident EXCEPT ![t] = {}]
    /\ IF PostRaises(r) \/ JsonRaises(r)
       THEN /\ pc' = [pc EXCEPT ![t] = "returned"]
            /\ ret' = [ret EXCEPT ![t] = "False"]
            /\ UNCHANGED <<tokens, issued, token_data, exch_time>>
       ELSE /\ token_data' = [token_data EXCEPT ![t] = {r}]
            /\ exch_time' = [exch_time EXCEPT ![t] = now]
            /\ access_token' = ExchangedAccessToken(r)
            /\ refresh_token' = ExchangedRefreshToken(r)
            /\ token_expiry' = ExpiresAt(now, r)
            /\ issued' = IF r.access_token # {} \/ r.refresh_token # {}
                         THEN issued + 1 ELSE issued
            \* user_info = self._get_user_info()
            /\ pc' = [pc EXCEPT ![t] = "check"]
            /\ ret' = ret
    /\ UNCHANGED <<refresh_status, max_results, pass, collection, hist, token_arg, sent_verifier, kind, nsend, n429, user_id, store,
                   config, now, url_state, op, cb_state,
                   data, hdr, wake, cause, nref, nexch>>

\* Lines 254-260 with _get_user_info (364-379): the lookup's response sets
\* user_id, the tokens are saved and True is returned.
handle_callback_return(t, ok) ==
    /\ pc[t] = "mar_ret"
    /\ op[t] = "callback"
    /\ user_id' = UserIdAfterLookup(user_id, resp[t])
    /\ store' = SaveTokens(store, supabase, user_id', access_token, refresh_token,
                           token_expiry, ok)
    /\ pc' = [pc EXCEPT ![t] = "returned"]
    /\ ret' = [ret EXCEPT ![t] = "True"]
    /\ UNCHANGED <<refresh_status, max_results, pass, collection, hist, calls, tokens, config, now, issued, url_state, op, cb_state,
                   token_data, exch_time, data, hdr, resp, wake, cause, nref, nexch>>

\* ------------------------------------ _make_authenticated_request (381-434)
\* Any public API operation (get_timeline, reply_to_tweet, ...) enters it.
api_call(t) ==
    /\ pc[t] = "idle"
    /\ NoAuthOp
    /\ op' = [op EXCEPT ![t] = "request"]
    /\ pc' = [pc EXCEPT ![t] = "check"]
    /\ prev_revoke' = {}
    /\ UNCHANGED <<refresh_status, max_results, pass, collection, url_challenge, used_challenges, calls, shared, config, locals,
                   now, issued, url_state>>

\* Lines 395-407 with 271-290: the expiry check; on expiry _refresh_access_token
\* is entered, which returns False without a refresh token and otherwise builds
\* its data dict; without expiry the Authorization header is built.
expiry_check(t) ==
    /\ pc[t] = "check"
    /\ IF NeedsRefresh(access_token, token_expiry, now)
       THEN /\ nref' = [nref EXCEPT ![t] = 1]
            /\ IF ~CanRefresh(refresh_token)
               THEN /\ pc' = [pc EXCEPT ![t] = "mar_ret"]
                    /\ resp' = [resp EXCEPT ![t] = {}]
                    /\ cause' = [cause EXCEPT ![t] = "refresh_failed"]
                    /\ UNCHANGED <<data, hdr>>
               ELSE /\ data' = [data EXCEPT ![t] = refresh_token]
                    /\ pc' = [pc EXCEPT ![t] = "refresh_send"]
                    /\ UNCHANGED <<resp, hdr, cause>>
            /\ ident' = IF CanRefresh(refresh_token)
                        THEN [ident EXCEPT ![t] = ClientIdentification(
                                  is_confidential_client, client_secret)]
                        ELSE ident
       ELSE /\ nref' = [nref EXCEPT ![t] = 0]
            /\ IF AuthHeader(access_token, bearer_token) = Null
               THEN /\ pc' = [pc EXCEPT ![t] = "mar_ret"]
                    /\ resp' = [resp EXCEPT ![t] = {}]
                    /\ cause' = [cause EXCEPT ![t] = "no_token"]
                    /\ hdr' = hdr
               ELSE /\ pc' = [pc EXCEPT ![t] = "api_send"]
                    /\ hdr' = [hdr EXCEPT ![t] = AuthHeader(access_token, bearer_token)]
                    /\ UNCHANGED <<resp, cause>>
            /\ UNCHANGED <<data, ident>>
    /\ refresh_status' = [refresh_status EXCEPT ![t] = FALSE]
    /\ UNCHANGED <<max_results, pass, collection, hist, token_arg, sent_verifier, kind, nsend, n429, shared, config, now, issued, url_state, op, cb_state,
                   token_data, exch_time, wake, nexch, ret>>

\* Line 292: the refresh request leaves with the data dict built before.
refresh_send(t) ==
    /\ pc[t] = "refresh_send"
    /\ pc' = [pc EXCEPT ![t] = "refresh_wait"]
    /\ nref' = [nref EXCEPT ![t] = 0]
    /\ UNCHANGED <<refresh_status, max_results, pass, collection, hist, calls, shared, config, now, issued, url_state, op, cb_state,
                   token_data, exch_time, data, hdr, resp, wake, cause, nexch, ret>>

\* Lines 292-293: requests.post gave no response, or raise_for_status one
\* whose status is not 2xx.
EndpointFailed(status) == status = 0 \/ status \notin 200..299

\* Lines 292-313, then 397-407: the token endpoint answers the refresh.
refresh_response(t, r, ok) ==
    /\ pc[t] = "refresh_wait"
    /\ (r.access_token # {} \/ r.refresh_token # {}) => issued < MaxIssue
    /\ data' = [data EXCEPT ![t] = Null]
    /\ ident' = [ident EXCEPT ![t] = {}]
    /\ IF PostRaises(r) \/ JsonRaises(r)
       THEN /\ pc' = [pc EXCEPT ![t] = "mar_ret"]
            /\ resp' = [resp EXCEPT ![t] = {}]
            /\ cause' = [cause EXCEPT ![t] = "refresh_failed"]
            /\ UNCHANGED <<tokens, store, issued, hdr>>
       ELSE /\ access_token' = RefreshedAccessToken(r)
            /\ refresh_token' = RotatedRefreshToken(refresh_token, r)
            /\ token_expiry' = ExpiresAt(now, r)
            /\ issued' = IF r.access_token # {} \/ r.refresh_token # {}
                         THEN issued + 1 ELSE issued
            /\ store' = SaveTokens(store, supabase, user_id, access_token',
                                   refresh_token', token_expiry', ok)
            /\ IF AuthHeader(access_token', bearer_token) = Null
               THEN /\ pc' = [pc EXCEPT ![t] = "mar_ret"]
                    /\ resp' = [resp EXCEPT ![t] = {}]
                    /\ cause' = [cause EXCEPT ![t] = "no_token"]
                    /\ hdr' = hdr
               ELSE /\ pc' = [pc EXCEPT ![t] = "api_send"]
                    /\ hdr' = [hdr EXCEPT ![t] = AuthHeader(access_token', bearer_token)]
                    /\ UNCHANGED <<resp, cause>>
    /\ refresh_status' = [refresh_status EXCEPT ![t] = EndpointFailed(r.status)]
    /\ UNCHANGED <<max_results, pass, collection, hist, token_arg, sent_verifier, kind, nsend, n429, user_id, config,
                   now, url_state, op, cb_state, token_data, exch_time,
                   wake, nref, nexch, ret>>

\* Line 412: the API request leaves with the header built before.
api_send(t) ==
    /\ pc[t] = "api_send"
    /\ pc' = [pc EXCEPT ![t] = "api_wait"]
    /\ nref' = [nref EXCEPT ![t] = 0]
    /\ nsend' = [nsend EXCEPT ![t] = nsend[t] + 1]
    /\ refresh_status' = [refresh_status EXCEPT ![t] = FALSE]
    /\ UNCHANGED <<max_results, pass, collection, hist, token_arg, ident, sent_verifier, kind, n429, shared, config, now, issued, url_state, op, cb_state,
                   token_data, exch_time, data, hdr, resp, wake, cause, nexch, ret>>

\* Lines 412-434: the API answers r; a 429 starts the sleep before the retry.
api_response(t, r) ==
    /\ pc[t] = "api_wait"
    /\ hdr' = [hdr EXCEPT ![t] = Null]
    /\ IF r.status = 0
       THEN /\ pc' = [pc EXCEPT ![t] = "mar_ret"]
            /\ resp' = [resp EXCEPT ![t] = {}]
            /\ cause' = [cause EXCEPT ![t] = "request_error"]
            /\ UNCHANGED <<wake, n429>>
       ELSE IF RateLimited(r)
       THEN /\ now + WaitTime(r, now) <= horizon
            /\ resp' = [resp EXCEPT ![t] = {r}]
            /\ wake' = [wake EXCEPT ![t] = now + WaitTime(r, now)]
            /\ n429' = [n429 EXCEPT ![t] = n429[t] + 1]
            /\ pc' = [pc EXCEPT ![t] = "sleeping"]
            /\ cause' = cause
       ELSE /\ pc' = [pc EXCEPT ![t] = "mar_ret"]
            /\ resp' = [resp EXCEPT ![t] = {r}]
            /\ UNCHANGED <<wake, cause, n429>>
    /\ UNCHANGED <<refresh_status, max_results, pass, collection, hist, token_arg, ident, sent_verifier, kind, nsend, shared, config, now, issued, url_state, op, cb_state,
                   token_data, exch_time, data, nref, nexch, ret>>

\* Lines 426-429: time.sleep(wait_time) returns and the request is made again.
retry_after_sleep(t) ==
    /\ pc[t] = "sleeping"
    /\ now >= wake[t]
    /\ pc' = [pc EXCEPT ![t] = "check"]
    /\ wake' = [wake EXCEPT ![t] = 0]
    /\ resp' = [resp EXCEPT ![t] = {}]
    /\ UNCHANGED <<refresh_status, max_results, pass, collection, hist, calls, shared, config, now, issued, url_state, op, cb_state,
                   token_data, exch_time, data, hdr, cause, nref, nexch, ret>>

\* The caller gets the Response or None; the frame of the call is gone.
api_return(t) ==
    /\ pc[t] = "mar_ret"
    /\ op[t] = "request"
    /\ kind[t] = "none"
    /\ pc' = [pc EXCEPT ![t] = "idle"]
    /\ op' = [op EXCEPT ![t] = "none"]
    /\ data' = [data EXCEPT ![t] = Null]
    /\ hdr' = [hdr EXCEPT ![t] = Null]
    /\ resp' = [resp EXCEPT ![t] = {}]
    /\ cause' = [cause EXCEPT ![t] = "none"]
    /\ nref' = [nref EXCEPT ![t] = 0]
    /\ ident' = [ident EXCEPT ![t] = {}]
    /\ nsend' = [nsend EXCEPT ![t] = 0]
    /\ n429' = [n429 EXCEPT ![t] = 0]
    /\ refresh_status' = [refresh_status EXCEPT ![t] = FALSE]
    /\ UNCHANGED <<max_results, pass, collection, hist, token_arg, sent_verifier, kind, shared, config, now, issued,
                   url_state, cb_state, token_data, exch_time, wake, nexch, ret>>

\* --------------------------------------------------- revoke_token (315-362)
\* Lines 324-346: without a token to revoke False is returned, otherwise the
\* POST to the revoke endpoint is sent.
revoke_token(t, token) ==
    /\ AllIdle
    /\ op' = [op EXCEPT ![t] = "revoke"]
    /\ token_arg' = [token_arg EXCEPT ![t] = token]
    /\ IF token = Null /\ access_token = Null
       THEN /\ pc' = [pc EXCEPT ![t] = "returned"]
            /\ ret' = [ret EXCEPT ![t] = "False"]
            /\ UNCHANGED <<data, ident>>
       ELSE /\ data' = [data EXCEPT ![t] = TokenToRevoke(token, access_token)]
            /\ ident' = [ident EXCEPT ![t] =
                            ClientIdentification(is_confidential_client, client_secret)]
            /\ pc' = [pc EXCEPT ![t] = "revoke_wait"]
            /\ ret' = ret
    /\ UNCHANGED <<refresh_status, max_results, pass, collection, hist, sent_verifier, kind, nsend, n429, shared, config, now, issued, url_state, cb_state,
                   token_data, exch_time, hdr, resp, wake, cause, nref, nexch>>

\* Lines 346-362: the revoke endpoint answers r.
revoke_response(t, r, ok) ==
    /\ pc[t] = "revoke_wait"
    /\ pc' = [pc EXCEPT ![t] = "returned"]
    /\ resp' = [resp EXCEPT ![t] = {r}]
    /\ IF PostRaises(r)
       THEN /\ ret' = [ret EXCEPT ![t] = "False"]
            /\ UNCHANGED <<tokens, store>>
       ELSE /\ access_token' = AccessTokenAfterRevoke(data[t], access_token)
            /\ refresh_token' = RefreshTokenAfterRevoke(data[t], access_token,
                                                        refresh_token)
            /\ token_expiry' = TokenExpiryAfterRevoke(data[t], access_token,
                                                      token_expiry)
            /\ store' = SaveTokens(store, supabase, user_id, access_token',
                                   refresh_token', token_expiry', ok)
            /\ ret' = [ret EXCEPT ![t] = "True"]
    /\ UNCHANGED <<refresh_status, max_results, pass, collection, hist, calls, user_id, config, now, issued, url_state, op, cb_state,
                   token_data, exch_time, data, hdr, wake, cause, nref, nexch>>

\* ------------------------------------- the platform operations (436-711)
\* One of the public operations is called; lines 446-449, 624-626, 657-659:
\* without a user id the three that need one return before any request.
\* Line 453: get_timeline asks for min(max_tweets, 100) results.
platform_call(t, o, max_tweets) ==
    /\ pc[t] = "idle"
    /\ NoAuthOp
    /\ op' = [op EXCEPT ![t] = "request"]
    /\ kind' = [kind EXCEPT ![t] = o]
    /\ prev_revoke' = {}
    /\ IF NeedsUserId(o) /\ user_id = NoUser
       THEN /\ pc' = [pc EXCEPT ![t] = "returned"]
            /\ ret' = [ret EXCEPT ![t] = FailureValue(o)]
            /\ max_results' = max_results
       ELSE /\ pc' = [pc EXCEPT ![t] = "check"]
            /\ ret' = ret
            /\ max_results' = IF o = "get_timeline"
                              THEN [max_results EXCEPT ![t] = MaxResults(max_tweets)]
                              ELSE max_results
    /\ UNCHANGED <<refresh_status, pass, collection, url_challenge, used_challenges, token_arg, ident, sent_verifier,
                   nsend, n429, shared, config, now, issued, url_state, cb_state,
                   token_data, exch_time, data, hdr, resp, wake, cause, nref, nexch>>

\* _make_authenticated_request has returned the Response or None; the
\* operation maps it to its result.
platform_return(t, body) ==
    /\ pc[t] = "mar_ret"
    /\ op[t] = "request"
    /\ kind[t] # "none"
    /\ pc' = [pc EXCEPT ![t] = "returned"]
    /\ ret' = [ret EXCEPT ![t] = OperationResult(kind[t], resp[t], body)]
    /\ UNCHANGED <<refresh_status, max_results, pass, collection, hist, calls, shared, config, now, issued, url_state, op, cb_state,
                   token_data, exch_time, data, hdr, resp, wake, cause, nref, nexch>>

\* ------------------------------------------------------------------ Next
Next ==
    \/ Tick
    \/ \E t \in Threads : done(t)
    \/ \E t \in AuthThreads : get_authorization_url(t)
    \/ \E t \in AuthThreads, state \in 1..NumNonces : handle_callback(t, state)
    \/ \E t \in Threads, r \in TokenResponses(issued) : handle_callback_response(t, r)
    \/ \E t \in Threads, ok \in BOOLEAN : handle_callback_return(t, ok)
    \/ \E t \in Threads : api_call(t)
    \/ \E t \in Threads : expiry_check(t)
    \/ \E t \in Threads : refresh_send(t)
    \/ \E t \in Threads, r \in TokenResponses(issued), ok \in BOOLEAN :
            refresh_response(t, r, ok)
    \/ \E t \in Threads : api_send(t)
    \/ \E t \in Threads : \E r \in ApiResponses(op[t]) : api_response(t, r)
    \/ \E t \in Threads : retry_after_sleep(t)
    \/ \E t \in Threads : api_return(t)
    \/ \E t \in AuthThreads, token \in {Null, access_token, refresh_token, AT(0)} :
            revoke_token(t, token)
    \/ \E t \in Threads, r \in RevokeResponses, ok \in BOOLEAN :
            revoke_response(t, r, ok)

Spec == Init /\ [][Next]_vars

\* ------------------------------------------------- the authorization phase
\* setup_x_interactor (kickoff.py 77-166) before the threads exist: one caller
\* runs the authorization flow, and revoke_token, on an object constructed
\* without token store (kickoff.py 98-102), with any kind of client and any
\* generated verifier.
InitAuth ==
    /\ access_token = Null
    /\ refresh_token = Null
    /\ token_expiry = NoExpiry
    /\ user_id = NoUser
    /\ bearer_token = Null
    /\ supabase = FALSE
    /\ store = [a \in Accounts |-> NoRecord]
    /\ now = 1
    /\ issued = 0
    /\ url_state = 0
    /\ pc = [t \in Threads |-> "idle"]
    /\ op = [t \in Threads |-> "none"]
    /\ cb_state = [t \in Threads |-> 0]
    /\ token_data = [t \in Threads |-> {}]
    /\ exch_time = [t \in Threads |-> 0]
    /\ data = [t \in Threads |-> Null]
    /\ hdr = [t \in Threads |-> Null]
    /\ resp = [t \in Threads |-> {}]
    /\ wake = [t \in Threads |-> 0]
    /\ cause = [t \in Threads |-> "none"]
    /\ nref = [t \in Threads |-> 0]
    /\ nexch = [t \in Threads |-> 0]
    /\ ret = [t \in Threads |-> "none"]
    /\ is_confidential_client \in BOOLEAN
    /\ client_secret \in {Null, Secret}
    /\ code_verifier \in 1..NumNonces
    /\ code_challenge = CodeChallenge(code_verifier)
    /\ horizon = MaxTime
    /\ url_challenge = 0
    /\ used_challenges = {}
    /\ prev_revoke = {}
    /\ token_arg = [t \in Threads |-> Null]
    /\ ident = [t \in Threads |-> {}]
    /\ sent_verifier = [t \in Threads |-> 0]
    /\ kind = [t \in Threads |-> "none"]
    /\ nsend = [t \in Threads |-> 0]
    /\ n429 = [t \in Threads |-> 0]
    /\ max_results = [t \in Threads |-> 0]
    /\ refresh_status = [t \in Threads |-> FALSE]
    /\ NoPass
    /\ NoCollection

NextAuth ==
    \/ Tick
    \/ \E t \in AuthThreads : done(t)
    \/ \E t \in AuthThreads : get_authorization_url(t)
    \/ \E t \in AuthThreads, state \in 1..NumNonces : handle_callback(t, state)
    \/ \E t \in AuthThreads, r \in TokenResponses(issued) :
            handle_callback_response(t, r)
    \/ \E t \in AuthThreads, ok \in BOOLEAN : handle_callback_return(t, ok)
    \/ \E t \in AuthThreads : expiry_check(t)
    \/ \E t \in AuthThreads : refresh_send(t)
    \/ \E t \in AuthThreads, r \in TokenResponses(issued), ok \in BOOLEAN :
            refresh_response(t, r, ok)
    \/ \E t \in AuthThreads : api_send(t)
    \/ \E t \in AuthThreads : \E r \in ApiResponses(op[t]) : api_response(t, r)
    \/ \E t \in AuthThreads : retry_after_sleep(t)
    \/ \E t \in AuthThreads,
          token \in {Null, refresh_token} :
            revoke_token(t, token)
    \/ \E t \in AuthThreads, r \in RevokeResponses, ok \in BOOLEAN :
            revoke_response(t, r, ok)

AuthSpec == InitAuth /\ [][NextAuth]_vars

\* ---------------------------------------------------- the request phase
\* One caller at a time runs the platform operations (VibeBot.__init__ ->
\* _follow_accounts before the threads start) on the object as kickoff.py
\* 98-108 leaves it: the tokens are those of the token file, if there is one.
TokenFiles ==
    {[access_token |-> Null, refresh_token |-> Null, expires_at |-> NoExpiry,
      user_id |-> NoUser]}
    \cup {[access_token |-> AT(1), refresh_token |-> rt, expires_at |-> te,
           user_id |-> uid] :
            rt \in {Null, RT(1)}, te \in {1, 1 + DefaultExpiresIn},
            uid \in Accounts \cup {NoUser}}

InitRequest ==
    /\ \E file \in TokenFiles :
         /\ access_token = file.access_token
         /\ refresh_token = file.refresh_token
         /\ token_expiry = file.expires_at
         /\ user_id = file.user_id
         /\ issued = IF file.access_token = Null THEN 0 ELSE 1
    /\ bearer_token \in {Null, Bearer}
    /\ supabase = FALSE
    /\ store = [a \in Accounts |-> NoRecord]
    /\ now = 1
    /\ url_state = 0
    /\ pc = [t \in Threads |-> "idle"]
    /\ op = [t \in Threads |-> "none"]
    /\ cb_state = [t \in Threads |-> 0]
    /\ token_data = [t \in Threads |-> {}]
    /\ exch_time = [t \in Threads |-> 0]
    /\ data = [t \in Threads |-> Null]
    /\ hdr = [t \in Threads |-> Null]
    /\ resp = [t \in Threads |-> {}]
    /\ wake = [t \in Threads |-> 0]
    /\ cause = [t \in Threads |-> "none"]
    /\ nref = [t \in Threads |-> 0]
    /\ nexch = [t \in Threads |-> 0]
    /\ ret = [t \in Threads |-> "none"]
    /\ is_confidential_client = TRUE
    /\ client_secret = Secret
    /\ code_verifier = 1
    /\ code_challenge = CodeChallenge(code_verifier)
    /\ horizon = MaxRequestTime
    /\ url_challenge = 0
    /\ used_challenges = {}
    /\ prev_revoke = {}
    /\ token_arg = [t \in Threads |-> Null]
    /\ ident = [t \in Threads |-> {}]
    /\ sent_verifier = [t \in Threads |-> 0]
    /\ kind = [t \in Threads |-> "none"]
    /\ nsend = [t \in Threads |-> 0]
    /\ n429 = [t \in Threads |-> 0]
    /\ max_results = [t \in Threads |-> 0]
    /\ refresh_status = [t \in Threads |-> FALSE]
    /\ NoPass
    /\ NoCollection

NextRequest ==
    \/ Tick
    \/ \E t \in AuthThreads : done(t)
    \/ \E t \in AuthThreads, o \in Operations : platform_call(t, o, DefaultMaxTweets)
    \/ \E t \in AuthThreads : expiry_check(t)
    \/ \E t \in AuthThreads : refresh_send(t)
    \/ \E t \in AuthThreads, r \in TokenResponses(issued), ok \in BOOLEAN :
            refresh_response(t, r, ok)
    \/ \E t \in AuthThreads : api_send(t)
    \/ \E t \in AuthThreads :
            \E r \in ApiResponses(op[t]) \cup CreatedResponses : api_response(t, r)
    \/ \E t \in AuthThreads : retry_after_sleep(t)
    \/ \E t \in AuthThreads, body \in {{}, {"data"}} : platform_return(t, body)

RequestSpec == InitRequest /\ [][NextRequest]_vars

\* ------------------------------------------------------ the timeline pass
\* VibeBot.timeline_interface (vibebot.py 234-293), run by the timeline thread
\* of kickoff.py with the tokens of the token file. Its calls of get_timeline
\* and reply_to_tweet are the platform operations above.
machine == <<hist, calls, shared, config, locals, now, issued, url_state, pc, op,
            max_results, refresh_status>>

\* Line 248: timeline_interface is entered and is about to call get_timeline.
\* What is recorded of the calls of a pass starts empty with the pass.
timeline_interface(commit) ==
    /\ tl_pc = "idle"
    /\ tl_pc' = "get_timeline"
    /\ reply_to_tweets' = commit
    /\ consulted' = <<>>
    /\ reply_calls' = <<>>
    /\ verdicts' = <<>>
    /\ posted' = <<>>
    /\ generated_for' = <<>>
    /\ UNCHANGED <<machine, collection, loop, replied_ever, tl_retrieval_length, tweets_data, timeline, pos,
                   responded_to, ignored, bot_db, response, generated, reply_text>>

\* x_interactor.py 464-478 and vibebot.py 248-252: get_timeline returns the
\* tweets built from the data array, or [] on one of its failure paths, and
\* the loop starts with empty lists.
timeline_assigned(t) ==
    /\ tl_pc = "get_timeline"
    /\ pc[t] = "returned"
    /\ timeline' = IF ret[t] = "data" THEN Tweets(tweets_data) ELSE <<>>
    /\ pos' = 1
    /\ responded_to' = <<>>
    /\ ignored' = <<>>
    /\ tl_pc' = "loop"
    /\ UNCHANGED <<machine, collection, loop, replied_ever, tl_retrieval_length, tweets_data, reply_to_tweets,
                   consulted, reply_calls, bot_db, response, generated,
                   reply_text, verdicts, posted, generated_for>>

\* Line 255 with _should_reply_to_tweet (171-197): the loop reaches
\* timeline[pos]; a tweet of the bot itself is ignored at once (181-182, 290),
\* for any other the model is asked and answers `answer`.
should_reply_to_tweet(t, answer) ==
    /\ tl_pc = "loop"
    /\ pc[t] = "idle"
    /\ pos <= Len(timeline)
    /\ LET tweet == timeline[pos]
       IN  IF SelfAuthored(tweet)
           THEN /\ ignored' = ListAppend(ignored, tweet)
                /\ verdicts' = Append(verdicts, [verdict |-> "IGNORE", reply |-> {}])
                /\ pos' = NextPos(pos)
                /\ UNCHANGED <<tl_pc, consulted, response>>
           ELSE /\ consulted' = Append(consulted, tweet.id)
                /\ response' = {answer}
                /\ tl_pc' = "gated"
                /\ UNCHANGED <<pos, ignored, verdicts>>
    /\ UNCHANGED <<machine, collection, loop, replied_ever, tl_retrieval_length, tweets_data, reply_to_tweets,
                   timeline, responded_to, reply_calls, bot_db, generated,
                   reply_text, posted, generated_for>>

\* Lines 200 and 255-258, 281-290 with _generate_reply (202-232): the answer
\* decides; on YES the model writes `text`, which is cut to the limit, and the
\* reply is posted or, in a simulated pass, only recorded.
verdict(t, text) ==
    /\ tl_pc = "gated"
    /\ LET tweet == timeline[pos]
       IN  IF ~ShouldReply(The(response))
           THEN /\ ignored' = ListAppend(ignored, tweet)
                /\ verdicts' = Append(verdicts, [verdict |-> "IGNORE", reply |-> {}])
                /\ pos' = NextPos(pos)
                /\ tl_pc' = "loop"
                /\ response' = {}
                /\ UNCHANGED <<responded_to, reply_calls, generated, reply_text,
                               generated_for>>
           ELSE /\ generated_for' = Append(generated_for, tweet.id)
                /\ verdicts' = Append(verdicts,
                       [verdict |-> "REPLY", reply |-> {CommittedReply(text)}])
                /\ IF PostsReply(reply_to_tweets)
                   THEN /\ generated' = {text}
                        /\ reply_text' = {CommittedReply(text)}
                        /\ tl_pc' = "reply_to_tweet"
                        /\ reply_calls' = Append(reply_calls, tweet.id)
                        /\ UNCHANGED <<pos, responded_to, ignored, response>>
                   ELSE /\ responded_to' = ListAppend(responded_to,
                               [original_tweet |-> tweet,
                                reply |-> CommittedReply(text), reply_id |-> {}])
                        /\ pos' = NextPos(pos)
                        /\ tl_pc' = "loop"
                        /\ response' = {}
                        /\ UNCHANGED <<ignored, reply_calls, generated, reply_text>>
    /\ UNCHANGED <<machine, collection, loop, replied_ever, tl_retrieval_length, tweets_data, reply_to_tweets,
                   timeline, consulted, bot_db, posted>>

\* the table is followed up to this many rows; a full table refuses the insert
MaxRows == MaxTweets

\* Lines 260-280: reply_to_tweet has returned the reply id or None; with an id
\* bot_db.add_post inserts the row, and its exception (bot_db.py 41-43)
\* leaves timeline_interface, which has no handler.
reply_result(t, stored) ==
    /\ tl_pc = "reply_to_tweet"
    /\ pc[t] = "returned"
    /\ stored => Len(bot_db) < MaxRows
    /\ response' = {}
    /\ generated' = {}
    /\ reply_text' = {}
    /\ LET tweet == timeline[pos]
       IN  IF ret[t] # "data"
           THEN /\ pos' = NextPos(pos)
                /\ tl_pc' = "loop"
                /\ UNCHANGED <<responded_to, bot_db, posted, replied_ever>>
           ELSE /\ posted' = Append(posted, ReplyId(tweet.id))
                /\ replied_ever' = replied_ever \cup {tweet.id}
                /\ IF stored
                   THEN /\ bot_db' = Append(bot_db,
                               PostRow(ReplyId(tweet.id), tweet, The(reply_text)))
                        /\ responded_to' = ListAppend(responded_to,
                               [original_tweet |-> tweet, reply |-> The(reply_text),
                                reply_id |-> {ReplyId(tweet.id)}])
                        /\ pos' = NextPos(pos)
                        /\ tl_pc' = "loop"
                   ELSE /\ tl_pc' = "raised"
                        /\ UNCHANGED <<pos, responded_to, bot_db>>
    /\ UNCHANGED <<machine, collection, loop, tl_retrieval_length, tweets_data, reply_to_tweets,
                   timeline, ignored, consulted, reply_calls, verdicts,
                   generated_for>>

\* Lines 292-293: the loop is over, (responded_to, ignored) is returned.
timeline_interface_return(t) ==
    /\ tl_pc = "loop"
    /\ pc[t] = "idle"
    /\ pos > Len(timeline)
    /\ tl_pc' = "returned"
    /\ UNCHANGED <<machine, collection, loop, replied_ever, tl_retrieval_length, tweets_data, reply_to_tweets,
                   timeline, pos, responded_to, ignored, consulted, reply_calls,
                   bot_db, response, generated, reply_text, verdicts, posted,
                   generated_for>>

\* The object as kickoff.py 98-108 leaves it with a token file whose access
\* token is valid; the pass is followed within one instant (the waits after a
\* 429 are the request phase's).
InitPass ==
    /\ access_token = AT(1)
    /\ refresh_token = RT(1)
    /\ token_expiry = 1 + DefaultExpiresIn
    /\ user_id \in Accounts \cup {NoUser}
    /\ issued = 1
    /\ bearer_token = Null
    /\ supabase = FALSE
    /\ store = [a \in Accounts |-> NoRecord]
    /\ now = 1
    /\ url_state = 0
    /\ pc = [t \in Threads |-> "idle"]
    /\ op = [t \in Threads |-> "none"]
    /\ cb_state = [t \in Threads |-> 0]
    /\ token_data = [t \in Threads |-> {}]
    /\ exch_time = [t \in Threads |-> 0]
    /\ data = [t \in Threads |-> Null]
    /\ hdr = [t \in Threads |-> Null]
    /\ resp = [t \in Threads |-> {}]
    /\ wake = [t \in Threads |-> 0]
    /\ cause = [t \in Threads |-> "none"]
    /\ nref = [t \in Threads |-> 0]
    /\ nexch = [t \in Threads |-> 0]
    /\ ret = [t \in Threads |-> "none"]
    /\ is_confidential_client = TRUE
    /\ client_secret = Secret
    /\ code_verifier = 1
    /\ code_challenge = CodeChallenge(code_verifier)
    /\ horizon = 1
    /\ url_challenge = 0
    /\ used_challenges = {}
    /\ prev_revoke = {}
    /\ token_arg = [t \in Threads |-> Null]
    /\ ident = [t \in Threads |-> {}]
    /\ sent_verifier = [t \in Threads |-> 0]
    /\ kind = [t \in Threads |-> "none"]
    /\ nsend = [t \in Threads |-> 0]
    /\ n429 = [t \in Threads |-> 0]
    /\ NoCollection
    /\ max_results = [t \in Threads |-> 0]
    /\ refresh_status = [t \in Threads |-> FALSE]
    /\ tl_retrieval_length \in {DefaultMaxTweets, ApiLimit + 1}
    /\ tweets_data \in UNION {DataArrays(n) : n \in 0..MaxTweets}
    /\ tl_pc = "idle"
    /\ reply_to_tweets = FALSE
    /\ timeline = <<>>
    /\ pos = 1
    /\ responded_to = <<>>
    /\ ignored = <<>>
    /\ consulted = <<>>
    /\ reply_calls = <<>>
    /\ bot_db = <<>>
    /\ response = {}
    /\ generated = {}
    /\ reply_text = {}
    /\ verdicts = <<>>
    /\ posted = <<>>
    /\ generated_for = <<>>
    /\ caught = FALSE
    /\ slept = {}
    /\ replied_ever = {}
    /\ interval_minutes \in Intervals

\* what platform_return finds in the body: the data array of the timeline
\* response is tweets_data, the reply response carries the reply id or not
Bodies(o) ==
    IF o = "get_timeline"
    THEN (IF tweets_data = <<>> THEN {{}} ELSE {{"data"}})
    ELSE {{}, {"data"}}

NextPass ==
    \/ \E commit \in BOOLEAN : timeline_interface(commit)
    \/ \E t \in AuthThreads :
            tl_pc = "get_timeline" /\ platform_call(t, "get_timeline", tl_retrieval_length)
    \/ \E t \in AuthThreads : timeline_assigned(t)
    \/ \E t \in AuthThreads, answer \in GateAnswers : should_reply_to_tweet(t, answer)
    \/ \E t \in AuthThreads, text \in GeneratedTexts : verdict(t, text)
    \/ \E t \in AuthThreads :
            tl_pc = "reply_to_tweet" /\ platform_call(t, "reply_to_tweet", DefaultMaxTweets)
    \/ \E t \in AuthThreads, stored \in BOOLEAN : reply_result(t, stored)
    \/ \E t \in AuthThreads : timeline_interface_return(t)
    \/ \E t \in AuthThreads : tl_pc = "loop" /\ done(t)
    \/ \E t \in AuthThreads : expiry_check(t)
    \/ \E t \in AuthThreads : api_send(t)
    \/ \E t \in AuthThreads :
            \E r \in ApiResponses(op[t]) \cup CreatedResponses : api_response(t, r)
    \/ \E t \in AuthThreads : \E body \in Bodies(kind[t]) : platform_return(t, body)

PassSpec == InitPass /\ [][NextPass]_vars

\* ---------------------------------------------------- the timeline loop
\* timeline_loop (scripts/kickoff.py 36-46), the thread kickoff.main starts
\* with config.loop.tl_retrieval_interval: pass after pass with
\* reply_to_tweets=True. Its sleeps are not measured on the clock of the
\* token phase: the tokens stay valid over the passes that are followed.

\* time.sleep raises ValueError for a negative length
SleepRaises(secs) == secs < 0

\* a loop that goes on only after a pass that returned
AfterSleepUnlessCaught(state) == IF state = "retry_sleeping" THEN "stopped" ELSE "idle"
\* line 38, `while True:`: after either sleep the body is entered again
AfterSleep(state) == "idle"

\* Lines 42-43: the pass has returned, its result is dropped and the loop
\* sleeps for the interval; an exception of time.sleep is one of the try block.
timeline_loop_sleep ==
    /\ tl_pc = "returned"
    /\ LET secs == interval_minutes * SecondsPerMinute
       IN  IF SleepRaises(secs)
           THEN /\ tl_pc' = "raised"
                /\ UNCHANGED <<caught, slept>>
           ELSE /\ tl_pc' = "sleeping"
                /\ caught' = FALSE
                /\ slept' = {secs}
    /\ timeline' = <<>>
    /\ pos' = 1
    /\ responded_to' = <<>>
    /\ ignored' = <<>>
    /\ response' = {}
    /\ generated' = {}
    /\ reply_text' = {}
    /\ UNCHANGED <<machine, collection, interval_minutes, replied_ever, tl_retrieval_length,
                   tweets_data,
                   reply_to_tweets, consulted, reply_calls, bot_db, verdicts,
                   posted, generated_for>>

\* Lines 44-46: `except Exception` takes the exception that left the try
\* block (the frame of the pass is gone), logs it and sleeps for a minute.
timeline_loop_except ==
    /\ tl_pc = "raised"
    /\ tl_pc' = "retry_sleeping"
    /\ caught' = TRUE
    /\ slept' = {RetryDelaySeconds}
    /\ timeline' = <<>>
    /\ pos' = 1
    /\ responded_to' = <<>>
    /\ ignored' = <<>>
    /\ response' = {}
    /\ generated' = {}
    /\ reply_text' = {}
    /\ UNCHANGED <<machine, collection, interval_minutes, replied_ever, tl_retrieval_length,
                   tweets_data,
                   reply_to_tweets, consulted, reply_calls, bot_db, verdicts,
                   posted, generated_for>>

\* time.sleep returns and the loop is at its head again.
timeline_loop_wake ==
    /\ tl_pc \in {"sleeping", "retry_sleeping"}
    /\ tl_pc' = AfterSleep(tl_pc)
    /\ UNCHANGED <<machine, collection, loop, replied_ever, tl_retrieval_length, tweets_data,
                   reply_to_tweets, timeline, pos, responded_to, ignored,
                   consulted, reply_calls, bot_db, response, generated,
                   reply_text, verdicts, posted, generated_for>>

\* the answers and the reply the model gives in the passes of the loop
LoopAnswers == {<<"Y", "E", "S">>, <<"N", "O">>}
LoopTexts == {Chars(TweetLimit)}

InitLoop ==
    /\ InitPass
    /\ tl_retrieval_length = DefaultMaxTweets
    /\ Len(tweets_data) <= LoopTweets

NextLoop ==
    \/ tl_pc = "idle" /\ timeline_interface(TRUE)
    \/ timeline_loop_sleep
    \/ timeline_loop_except
    \/ timeline_loop_wake
    \/ \E t \in AuthThreads :
            tl_pc = "get_timeline" /\ platform_call(t, "get_timeline", tl_retrieval_length)
    \/ \E t \in AuthThreads : timeline_assigned(t)
    \/ \E t \in AuthThreads, answer \in LoopAnswers : should_reply_to_tweet(t, answer)
    \/ \E t \in AuthThreads, text \in LoopTexts : verdict(t, text)
    \/ \E t \in AuthThreads :
            tl_pc = "reply_to_tweet" /\ platform_call(t, "reply_to_tweet", DefaultMaxTweets)
    \/ \E t \in AuthThreads, stored \in BOOLEAN : reply_result(t, stored)
    \/ \E t \in AuthThreads : timeline_interface_return(t)
    \/ \E t \in AuthThreads : tl_pc \in {"loop", "raised"} /\ done(t)
    \/ \E t \in AuthThreads : expiry_check(t)
    \/ \E t \in AuthThreads : api_send(t)
    \/ \E t \in AuthThreads :
            \E r \in ApiResponses(op[t]) \cup CreatedResponses : api_response(t, r)
    \/ \E t \in AuthThreads : \E body \in Bodies(kind[t]) : platform_return(t, body)

\* The thread is scheduled, its sleeps end and its HTTP requests and model
\* calls return: a step that stays possible is taken.
LoopSpec == InitLoop /\ [][NextLoop]_vars /\ WF_vars(NextLoop)

\* ------------------------------------------------ the engagement collection
\* VibeBot.get_engagement_metrics (vibebot.py 295-343), run by the engagement
\* thread of kickoff.py over the posts of the bot_db table.
EngagementThreads == {"eng"}

\* Lines 299-303: the posts are read from bot_db and the loop starts.
get_engagement_metrics ==
    /\ eng_pc = "idle"
    /\ posts' = [k \in 1..Len(bot_db) |-> bot_db[k].post_id]
    /\ eng_pos' = 1
    /\ collected' = <<>>
    /\ eng_pc' = "loop"
    /\ UNCHANGED <<machine, pass, engagement_db>>

\* Lines 303-308: the loop reaches posts[eng_pos] and is about to fetch its
\* metrics.
next_post(t) ==
    /\ eng_pc = "loop"
    /\ pc[t] = "idle"
    /\ eng_pos <= Len(posts)
    /\ eng_pc' = "get_metrics"
    /\ UNCHANGED <<machine, pass, posts, eng_pos, engagement_db, collected>>

\* Lines 308-341: the fetch has returned its dict; the loop body reads the
\* four keys, dumps the lists and upserts the row. Every exception on the way
\* (the KeyError of a read, a failed dump or upsert: stored = FALSE) is taken
\* by the except clause of the body, and the loop goes on.
add_engagement(t, body, stored) ==
    /\ eng_pc = "get_metrics"
    /\ pc[t] = "returned"
    /\ LET post_id == posts[eng_pos]
           metrics == IF ret[t] = "data" THEN body ELSE NoMetrics
       IN  /\ collected' = Append(collected,
                   [post_id |-> post_id,
                    metrics |-> IF ret[t] = "data" THEN {body} ELSE {},
                    writable |-> stored])
           /\ engagement_db' = IF ReadsRaise(metrics) \/ ~stored
                                THEN engagement_db
                                ELSE Upsert(engagement_db, post_id,
                                            EngagementRow(post_id, metrics))
    /\ eng_pos' = eng_pos + 1
    /\ eng_pc' = "loop"
    /\ UNCHANGED <<machine, pass, posts>>

\* Line 343: the loop is over.
get_engagement_metrics_return(t) ==
    /\ eng_pc = "loop"
    /\ pc[t] = "idle"
    /\ eng_pos > Len(posts)
    /\ eng_pc' = "returned"
    /\ UNCHANGED <<machine, pass, posts, eng_pos, engagement_db, collected>>

\* The object as in the timeline pass, the bot_db table with the rows of up to
\* MaxTweets posts and the engagement_db table with or without earlier rows.
InitEngagement ==
    /\ access_token = AT(1)
    /\ refresh_token = RT(1)
    /\ token_expiry = 1 + DefaultExpiresIn
    /\ user_id \in Accounts \cup {NoUser}
    /\ issued = 1
    /\ bearer_token = Null
    /\ supabase = FALSE
    /\ store = [a \in Accounts |-> NoRecord]
    /\ now = 1
    /\ url_state = 0
    /\ pc = [t \in Threads |-> "idle"]
    /\ op = [t \in Threads |-> "none"]
    /\ cb_state = [t \in Threads |-> 0]
    /\ token_data = [t \in Threads |-> {}]
    /\ exch_time = [t \in Threads |-> 0]
    /\ data = [t \in Threads |-> Null]
    /\ hdr = [t \in Threads |-> Null]
    /\ resp = [t \in Threads |-> {}]
    /\ wake = [t \in Threads |-> 0]
    /\ cause = [t \in Threads |-> "none"]
    /\ nref = [t \in Threads |-> 0]
    /\ nexch = [t \in Threads |-> 0]
    /\ ret = [t \in Threads |-> "none"]
    /\ is_confidential_client = TRUE
    /\ client_secret = Secret
    /\ code_verifier = 1
    /\ code_challenge = CodeChallenge(code_verifier)
    /\ horizon = 1
    /\ url_challenge = 0
    /\ used_challenges = {}
    /\ prev_revoke = {}
    /\ token_arg = [t \in Threads |-> Null]
    /\ ident = [t \in Threads |-> {}]
    /\ sent_verifier = [t \in Threads |-> 0]
    /\ kind = [t \in Threads |-> "none"]
    /\ nsend = [t \in Threads |-> 0]
    /\ n429 = [t \in Threads |-> 0]
    /\ max_results = [t \in Threads |-> 0]
    /\ refresh_status = [t \in Threads |-> FALSE]
    /\ tl_retrieval_length = DefaultMaxTweets
    /\ tweets_data = <<>>
    /\ tl_pc = "off"
    /\ reply_to_tweets = FALSE
    /\ timeline = <<>>
    /\ pos = 1
    /\ responded_to = <<>>
    /\ ignored = <<>>
    /\ consulted = <<>>
    /\ reply_calls = <<>>
    /\ response = {}
    /\ generated = {}
    /\ reply_text = {}
    /\ verdicts = <<>>
    /\ posted = <<>>
    /\ generated_for = <<>>
    /\ caught = FALSE
    /\ slept = {}
    /\ replied_ever = {}
    /\ interval_minutes = 1
    /\ \E n \in 0..MaxTweets :
         bot_db = [k \in 1..n |-> PostRow(ReplyId(k), [id |-> k], Chars(0))]
    /\ eng_pc = "idle"
    /\ posts = <<>>
    /\ eng_pos = 1
    /\ engagement_db \in [PostIds -> {{}, {EarlierRow}}]
    /\ collected = <<>>

NextEngagement ==
    \/ get_engagement_metrics
    \/ \E t \in EngagementThreads : next_post(t)
    \/ \E t \in EngagementThreads :
            eng_pc = "get_metrics"
            /\ platform_call(t, "get_engagement_metrics", DefaultMaxTweets)
    \/ \E t \in EngagementThreads, body \in MetricsBodies, stored \in BOOLEAN :
            add_engagement(t, body, stored)
    \/ \E t \in EngagementThreads : get_engagement_metrics_return(t)
    \/ \E t \in EngagementThreads : eng_pc = "loop" /\ done(t)
    \/ \E t \in EngagementThreads : expiry_check(t)
    \/ \E t \in EngagementThreads : api_send(t)
    \/ \E t \in EngagementThreads :
            \E r \in ApiResponses(op[t]) \cup CreatedResponses : api_response(t, r)
    \/ \E t \in EngagementThreads, body \in {{}, {"data"}} : platform_return(t, body)

EngagementSpec == InitEngagement /\ [][NextEngagement]_vars

\* ================================================================ claims

\* the in-memory token record
Mem == TokenData(access_token, refresh_token, token_expiry)

\* a token is held and the clock is past its expiry
Expired(at, te, t) == at # Null /\ t > te

\* thread t has just come back from handle_callback with value v
CallbackReturned(t, v) == pc[t] = "returned" /\ op[t] = "callback" /\ ret[t] = v

\* C1: handle_callback rejects every callback whose state differs from the
\* state of the authorization URL of its flow: it returns False, sends no
\* token request and leaves access_token, refresh_token, token_expiry as they
\* were.
C1_StateMismatchRejected ==
    [][\A t \in Threads :
         (pc[t] = "awaiting_callback" /\ pc'[t] # "awaiting_callback"
            /\ cb_state'[t] # url_state)
         => /\ pc'[t] = "returned"
            /\ ret'[t] = "False"
            /\ nexch'[t] = 0
            /\ UNCHANGED tokens]_vars

\* C2: an evaluation of the expiry check makes exactly one refresh attempt
\* when a token is held and now > token_expiry, and none otherwise.
C2_OneRefreshAttemptIffExpired ==
    [][\A t \in Threads :
         (pc[t] = "check" /\ pc'[t] # "check")
         => nref'[t] = IF Expired(access_token, token_expiry, now) THEN 1 ELSE 0]_vars

\* C2's case: a check has found the token expired and entered the refresh.
C2_Witness ==
    \E t \in Threads : nref[t] = 1 /\ pc[t] = "refresh_send" /\ now > token_expiry

\* C3: when the token is expired and the refresh fails, the manager no longer
\* holds the access token, no API request was built, and what the caller gets
\* differs from what it gets for any other failure.
C3_RefreshFailureUnauthenticates ==
    \A t \in Threads :
        (pc[t] = "mar_ret" /\ cause[t] = "refresh_failed")
        => /\ access_token = Null
           /\ hdr[t] = Null
           /\ \A u \in Threads :
                (pc[u] = "mar_ret" /\ cause[u] \in {"request_error", "no_token"})
                => resp[u] # resp[t]

\* a refresh token the platform issued before the one that is stored now
Replaced(tok) == tok # Null /\ refresh_token # Null /\ tok[2] < refresh_token[2]

\* C4: a successful refresh stores the new refresh token of the response or,
\* without one, keeps the old; no refresh request presents a refresh token
\* that has been replaced.
C4_OldRefreshTokenNeverPresented ==
    [][\A t \in Threads :
         /\ (pc[t] = "refresh_wait" /\ pc'[t] = "api_send")
            => refresh_token' \in {refresh_token, RT(issued')}
         /\ (pc[t] = "refresh_send" /\ pc'[t] = "refresh_wait")
            => ~Replaced(data[t])]_vars

\* C5: the threads' access to the token state is serialized: at most one
\* refresh is in flight at any time.
C5_OneRefreshInFlight ==
    Cardinality({t \in Threads : pc[t] = "refresh_wait"}) <= 1

\* C6: with refresh_token null, the refresh of an expired token sends no token
\* request, fails and leaves the tokens and the store as they were: the request
\* returns None; and while a held token is expired and refresh_token is null,
\* only handle_callback or revoke_token change the tokens.
C6_NullRefreshTokenForcesReauthorization ==
    [][/\ \A t \in Threads :
            (pc[t] = "check" /\ pc'[t] # "check" /\ refresh_token = Null
               /\ Expired(access_token, token_expiry, now))
            => /\ pc'[t] = "mar_ret"
               /\ resp'[t] = {}
               /\ hdr'[t] = Null
               /\ UNCHANGED <<tokens, store>>
       /\ (refresh_token = Null /\ Expired(access_token, token_expiry, now)
             /\ tokens' # tokens)
          => \E t \in Threads : pc[t] \in {"token_wait", "revoke_wait"}]_vars

\* C6's case: a request has failed on an expired token without refresh token.
C6_Witness ==
    \E t \in Threads :
        /\ pc[t] = "mar_ret" /\ cause[t] = "refresh_failed" /\ op[t] = "request"
        /\ access_token # Null /\ refresh_token = Null /\ now > token_expiry

\* C7: after handle_callback has returned True the manager holds the tokens of
\* the response, token_expiry is the exchange time plus expires_in (7200 by
\* default), and the store's record of the account equals the in-memory record.
C7_CallbackSuccessPersists ==
    \A t \in Threads :
        (CallbackReturned(t, "True") /\ supabase)
        => /\ access_token = Get(The(token_data[t]).access_token, Null)
           /\ refresh_token = Get(The(token_data[t]).refresh_token, Null)
           /\ token_expiry = exch_time[t]
                             + Get(The(token_data[t]).expires_in, DefaultExpiresIn)
           /\ user_id # NoUser
           /\ store[user_id] = Mem

C9_MalformedBodyFails ==
    \A t \in Threads :
        /\ (op[t] = "callback" /\ token_data[t] # {})
           => The(token_data[t]).access_token # {}
        /\ CallbackReturned(t, "True") => access_token # Null

\* the step in which revoke_token, revoking the current access token, succeeds
RevokedCurrentAccessToken(t) ==
    pc[t] = "revoke_wait" /\ data[t] = access_token /\ ret'[t] = "True"

\* C10 as stated: after a successful revoke of the current access token all
\* three token fields are cleared and the store holds no record.
C10_RevokeClearsEverything ==
    [][\A t \in Threads :
         RevokedCurrentAccessToken(t)
         => /\ access_token' = Null
            /\ refresh_token' = Null
            /\ token_expiry' = NoExpiry
            /\ \A a \in Accounts : ~store'[a].present]_vars

\* C10 amended: after a successful revoke of the current access token,
\* access_token is null and refresh_token and token_expiry are kept; no record
\* leaves the store: each is as it was, or the account's is overwritten with
\* the in-memory record.
C10_RevokeClearsAccessTokenOnly ==
    [][\A t \in Threads :
         RevokedCurrentAccessToken(t)
         => /\ access_token' = Null
            /\ refresh_token' = refresh_token
            /\ token_expiry' = token_expiry
            /\ \A a \in Accounts :
                 \/ store'[a] = store[a]
                 \/ /\ a = user_id /\ supabase
                    /\ store'[a] = TokenData(Null, refresh_token, token_expiry)]_vars

\* C10's case: the current access token was revoked, the refresh token is
\* still held and the store still has the account's record.
C10_Witness ==
    \E t \in Threads :
        /\ pc[t] = "returned" /\ op[t] = "revoke" /\ ret[t] = "True"
        /\ data[t] \in {AT(k) : k \in 1..MaxIssue}
        /\ access_token = Null /\ refresh_token # Null
        /\ user_id # NoUser /\ store[user_id] = Mem

\* the last revoke_token call that succeeded, when no other call came since
Prev == CHOOSE p \in prev_revoke : TRUE

\* C11: revoke_token called again right after a successful call, with the same
\* argument and the platform answering success whenever it is asked, returns
\* True again and leaves the tokens and the store as the first call left them.
C11_RevokeIdempotent ==
    \A t \in Threads :
        (/\ pc[t] = "returned" /\ op[t] = "revoke"
         /\ prev_revoke # {} /\ Prev.token = token_arg[t]
         /\ (resp[t] = {} \/ The(resp[t]).status \in 200..299))
        => /\ ret[t] = "True"
           /\ tokens = Prev.tokens
           /\ store = Prev.store

\* C12: every request to the token endpoint or the revoke endpoint names the
\* client in exactly one way: a confidential client by the Basic header only,
\* any other client by client_id in the body only.
C12_ClientIdentifiedOnce ==
    \A t \in Threads :
        pc[t] \in {"token_wait", "refresh_send", "refresh_wait", "revoke_wait"}
        => ident[t] = IF is_confidential_client THEN {"basic"} ELSE {"client_id"}

\* C13: the code_challenge of each authorization URL is freshly generated: it
\* is the challenge of no earlier authorization URL of the same object.
C13_FreshVerifierPerAttempt ==
    [][\A t \in Threads :
         (pc[t] = "idle" /\ pc'[t] = "awaiting_callback")
         => url_challenge' \notin used_challenges]_vars

\* C14: the code_verifier of a token exchange equals the code_challenge of the
\* authorization URL of its flow (method plain).
C14_VerifierMatchesChallenge ==
    \A t \in Threads :
        pc[t] = "token_wait"
        => /\ url_challenge # 0
           /\ sent_verifier[t] = url_challenge

\* C14's case: the second flow of an object has sent its token exchange.
C14_Witness ==
    \E t \in Threads :
        /\ pc[t] = "token_wait" /\ sent_verifier[t] = NumNonces
        /\ access_token # Null

\* C15 as stated: a call that received n > 0 responses 429 has sent its request
\* n + 1 times when it returns, and what it returns is no 429 response.
C15_ResentOncePer429 ==
    \A t \in Threads :
        (pc[t] = "mar_ret" /\ n429[t] > 0)
        => /\ nsend[t] = n429[t] + 1
           /\ resp[t] # {} => The(resp[t]).status # 429

\* C15 amended: after each 429 the request of the same operation is re-sent at
\* most once, and exactly once unless the expiry check of the retry ends the
\* call (refresh failed, or no token left), which then returns None; a call
\* that returns a response has sent n + 1 requests for n responses 429 and
\* returns the last response, which is no 429.
C15_ResentUnlessCheckFails ==
    /\ [](\A t \in Threads :
            /\ nsend[t] \in {n429[t], n429[t] + 1}
            /\ pc[t] = "api_wait" => nsend[t] = n429[t] + 1
            /\ pc[t] = "sleeping" => nsend[t] = n429[t]
            /\ pc[t] = "mar_ret"
               => \/ nsend[t] = n429[t] + 1
                  \/ /\ cause[t] \in {"refresh_failed", "no_token"}
                     /\ resp[t] = {}
            /\ (pc[t] = "mar_ret" /\ resp[t] # {})
               => /\ nsend[t] = n429[t] + 1
                  /\ The(resp[t]).status # 429)
    /\ [][\A t \in Threads :
            (pc[t] \notin {"idle", "returned"} /\ pc'[t] # "idle")
            => kind'[t] = kind[t]]_vars

\* C15's case: two responses 429, three sends, and the 200 of the third is
\* what the call returns.
C15_Witness ==
    \E t \in Threads :
        /\ pc[t] = "mar_ret" /\ n429[t] = 2 /\ nsend[t] = 3
        /\ resp[t] # {} /\ The(resp[t]).status = 200

\* C16: the retries after 429 responses are capped: a call does not sleep for
\* a retry once it has used up its budget of RetryBudget retries.
C16_RetriesCapped ==
    \A t \in Threads : n429[t] <= RetryBudget

\* C17: the sleep before a retry lasts at least one second and at least until
\* the reset time of the x-rate-limit-reset header (0 when absent), and the
\* retry does not start before the sleep is over.
C17_SleepUntilReset ==
    [][\A t \in Threads :
         /\ (pc[t] = "api_wait" /\ pc'[t] = "sleeping")
            => /\ wake'[t] >= now + 1
               /\ wake'[t] >= Get(The(resp'[t]).reset, 0)
         /\ (pc[t] = "sleeping" /\ pc'[t] # "sleeping")
            => now >= wake[t]]_vars

\* C17's case: a 429 with a reset time in the future has been slept out.
C17_Witness ==
    \E t \in Threads :
        /\ pc[t] = "sleeping" /\ now >= wake[t]
        /\ The(resp[t]).reset = {wake[t] - 1}

\* C18: a platform operation returns something else than its failure value
\* exactly when the last response of its request had a 2xx status.
C18_SuccessIffStatus2xx ==
    \A t \in Threads :
        (pc[t] = "returned" /\ op[t] = "request" /\ kind[t] # "none")
        => (ret[t] # FailureValue(kind[t])
            <=> (resp[t] # {} /\ The(resp[t]).status \in 200..299))

\* the elements of a list
Range(list) == {list[i] : i \in 1..Len(list)}

\* C19: get_timeline never asks for more than 100 results, and the list it
\* returns for a 200 response has the tweets of the data array of the response
\* in the same number and order (none when the response carries no data); the
\* list is empty on every other outcome.
C19_TimelineAsDataArray ==
    \A t \in Threads :
        /\ kind[t] = "get_timeline" => max_results[t] <= ApiLimit
        /\ (tl_pc = "loop" /\ pc[t] = "returned" /\ kind[t] = "get_timeline")
           => IF resp[t] # {} /\ The(resp[t]).status = 200
              THEN /\ Len(timeline) = Len(tweets_data)
                   /\ \A i \in 1..Len(timeline) :
                        /\ timeline[i].id = tweets_data[i].id
                        /\ timeline[i].author_id = Get(tweets_data[i].author_id, NoUser)
              ELSE timeline = <<>>

\* C19's case: tl_retrieval_length is above 100 and get_timeline has returned
\* two tweets.
C19_Witness ==
    \E t \in Threads :
        /\ tl_pc = "loop" /\ pc[t] = "returned" /\ kind[t] = "get_timeline"
        /\ tl_retrieval_length > ApiLimit
        /\ max_results[t] = ApiLimit
        /\ Len(timeline) = 2

\* C20: a tweet of the timeline whose author_id is the bot's own id (the
\* user_id of its configuration) is never put before the model and never
\* replied to, and once the loop has passed it
\* it is in the ignored list and not in responded_to.
C20_OwnTweetsIgnored ==
    \A i \in 1..Len(timeline) :
        timeline[i].author_id = ConfigUserId
        => /\ timeline[i].id \notin Range(consulted)
           /\ timeline[i].id \notin Range(reply_calls)
           /\ \A j \in 1..Len(responded_to) : responded_to[j].original_tweet # timeline[i]
           /\ i < pos => timeline[i] \in Range(ignored)

\* C20's case: a pass that replies is over, and a tweet of the bot itself was
\* on the timeline after a tweet the bot replied to.
C20_Witness ==
    /\ tl_pc = "returned"
    /\ reply_to_tweets
    /\ \E i, j \in 1..Len(timeline) :
         /\ i < j
         /\ timeline[i].id \in Range(reply_calls)
         /\ timeline[j].author_id = ConfigUserId

\* the verdict the loop has reached last
LastVerdict(list) == list[Len(list)].verdict

C22_ReplyWithinLimit ==
    /\ tl_pc = "reply_to_tweet"
       => LET g == The(generated)
              r == The(reply_text)
          IN  /\ Len(g) <= 280 => r = g
              /\ Len(g) > 280
                 => /\ Len(r) = 280
                    /\ SubSeq(r, Len(r) - 2, Len(r)) = <<".", ".", ".">>
              /\ Len(r) <= 280
    /\ \A i \in 1..Len(verdicts) :
         \A r \in verdicts[i].reply : Len(r) <= 280
    /\ \A j \in 1..Len(responded_to) : Len(responded_to[j].reply) <= 280

\* C22's case: the model wrote 281 characters and the request of
\* reply_to_tweet is on its way.
C22_Witness ==
    \E t \in Threads :
        /\ tl_pc = "reply_to_tweet"
        /\ pc[t] = "api_wait" /\ kind[t] = "reply_to_tweet"
        /\ Len(The(generated)) = 281

\* the tweets of the entries of responded_to
RepliedTweets == [j \in 1..Len(responded_to) |-> responded_to[j].original_tweet]
\* the tweets the loop has decided on, in the order of the timeline
Decided == SubSeq(timeline, 1, Len(verdicts))
\* the verdict on a tweet of the timeline that has one
VerdictOn(tweet, v) ==
    \E i \in 1..Len(verdicts) : timeline[i] = tweet /\ verdicts[i].verdict = v
\* the post store has a row for the reply to the tweet
HasRow(tweet) == \E k \in 1..Len(bot_db) : bot_db[k].content_gen_prompt = tweet.id

Simulating == tl_pc \notin {"off", "idle"} /\ ~reply_to_tweets

\* C24: in a pass with reply_to_tweets=False reply_to_tweet is never called
\* and no row is written to the post store, and the replied list holds, in
\* order, every tweet with verdict REPLY with the text generated for it and
\* no reply id.
C24_SimulatedPassOnlyRecords ==
    /\ [](Simulating
          => /\ reply_calls = <<>>
             /\ \A t \in Threads : kind[t] # "reply_to_tweet"
             /\ LET Rep(tweet) == VerdictOn(tweet, "REPLY")
                IN  RepliedTweets = SelectSeq(Decided, Rep)
             /\ \A j \in 1..Len(responded_to) :
                  /\ responded_to[j].reply_id = {}
                  /\ \E i \in 1..Len(verdicts) :
                       /\ timeline[i] = responded_to[j].original_tweet
                       /\ verdicts[i].reply = {responded_to[j].reply})
    /\ [][Simulating => bot_db' = bot_db]_vars

\* C24's case: a simulated pass has returned with two recorded replies.
C24_Witness ==
    /\ tl_pc = "returned"
    /\ ~reply_to_tweets
    /\ Len(responded_to) = 2
    /\ Len(responded_to[2].reply) = 280

\* timeline_interface has been called with reply_to_tweets=True
Committing == tl_pc \notin {"off", "idle"} /\ reply_to_tweets
\* the pass is over: it has returned or an exception has left it
PassOver == tl_pc \in {"returned", "raised"}

\* C25: a pass with reply_to_tweets=True that is over has decided on every
\* tweet of the timeline, whatever failed on the way.
C25_FailureNeverAbortsBatch ==
    (Committing /\ PassOver) => Len(verdicts) = Len(timeline)

\* the rows of the post store with the post id
RowsOf(id) == {k \in 1..Len(bot_db) : bot_db[k].post_id = id}

\* every entry of the replied list has a reply id and its row in the post store
RepliedHaveRows ==
    \A j \in 1..Len(responded_to) :
        /\ responded_to[j].reply_id # {}
        /\ \E k \in 1..Len(bot_db) :
             bot_db[k] = [post_id |-> The(responded_to[j].reply_id),
                          content_gen_prompt |-> responded_to[j].original_tweet.id,
                          content |-> responded_to[j].reply,
                          is_reply |-> TRUE]

C27_FetchFailurePropagates ==
    \A t \in Threads :
        (tl_pc = "loop" /\ pc[t] = "returned" /\ kind[t] = "get_timeline")
        => (resp[t] # {} /\ The(resp[t]).status = 200)

\* C28: when _refresh_access_token has succeeded on an object with a store
\* client, the store's record of the account equals the in-memory record.
C28_RefreshSuccessPersists ==
    [][\A t \in Threads :
         (pc[t] = "refresh_wait" /\ pc'[t] = "api_send" /\ supabase)
         => /\ user_id' # NoUser
            /\ store'[user_id'] = TokenData(access_token', refresh_token',
                                            token_expiry')]_vars

\* the ids of the tweets of the timeline at the positions in S
IdsAt(S) == {timeline[i].id : i \in S}
\* the list names tweets of the timeline, each once, in the timeline's order
InTimelineOrder(list) ==
    \A a, b \in 1..Len(list) :
        a < b => \E i, j \in 1..Len(timeline) :
                    i < j /\ timeline[i].id = list[a] /\ timeline[j].id = list[b]
\* the positions the loop has reached: the decided ones and the one at the gate
Reached == 1..(IF tl_pc = "gated" THEN pos ELSE Len(verdicts))
\* the pass is in its loop or past it
InLoop == tl_pc \in {"loop", "gated", "reply_to_tweet", "returned", "raised"}
Last(list) == list[Len(list)]

\* C29: the tweets of a pass are processed one after the other: the model is
\* asked the gate question once for every tweet reached that is not the bot's
\* own and never for an own one, it writes a reply once for every tweet with
\* verdict REPLY and for no other, every one of these calls and every
\* reply_to_tweet call is for the tweet at the position of the loop, and the
\* loop moves on by one position only when no call is under way.
C29_PostsProcessedInSequence ==
    /\ [](InLoop
          => /\ Len(verdicts) <= Len(timeline)
             /\ Range(consulted) =
                    IdsAt({i \in Reached : timeline[i].author_id # ConfigUserId})
             /\ Range(generated_for) =
                    IdsAt({i \in 1..Len(verdicts) : verdicts[i].verdict = "REPLY"})
             /\ InTimelineOrder(consulted)
             /\ InTimelineOrder(generated_for)
             /\ InTimelineOrder(reply_calls)
             /\ Committing => reply_calls = generated_for)
    /\ [][/\ consulted' # consulted
             => /\ tl_pc = "loop" /\ \A t \in AuthThreads : pc[t] = "idle"
                /\ consulted' = Append(consulted, timeline[pos].id)
          /\ generated_for' # generated_for
             => /\ tl_pc = "gated" /\ \A t \in AuthThreads : pc[t] = "idle"
                /\ Last(consulted) = timeline[pos].id
                /\ generated_for' = Append(generated_for, timeline[pos].id)
          /\ reply_calls' # reply_calls
             => /\ Last(generated_for') = timeline[pos].id
                /\ reply_calls' = Append(reply_calls, timeline[pos].id)
          /\ (InLoop /\ pos' # pos)
             => /\ pos' = pos + 1
                /\ tl_pc' = "loop"
                /\ \A t \in AuthThreads : pc[t] \in {"idle", "returned"}
                /\ Len(verdicts') = pos]_vars

\* C29's case: a pass that posts has returned after two tweets; the model was
\* asked about both and wrote the one reply that was posted.
C29_Witness ==
    /\ tl_pc = "returned"
    /\ reply_to_tweets
    /\ Len(timeline) = 2
    /\ Len(consulted) = 2
    /\ Len(generated_for) = 1
    /\ Len(posted) = 1
    /\ verdicts[1].verdict = "REPLY"

\* C30: an exception that leaves a pass never ends timeline_loop: from the
\* state it is raised in the loop can only go to its except clause, which
\* sleeps for the fixed retry delay, after which the next pass is started; and
\* with the loop's steps taken whenever they stay possible, a pass is started
\* again and again.
C30_LoopSurvivesErrors ==
    /\ [][tl_pc = "raised" => tl_pc' \in {"raised", "retry_sleeping"}]_vars
    /\ [][tl_pc = "retry_sleeping" => tl_pc' \in {"retry_sleeping", "idle"}]_vars
    /\ (tl_pc = "raised") ~> (tl_pc = "retry_sleeping" /\ slept = {RetryDelaySeconds})
    /\ (tl_pc = "retry_sleeping") ~> (tl_pc = "get_timeline" /\ caught)
    /\ []<>(tl_pc = "get_timeline")

\* C30's case: with a positive interval a pass was left by an exception, the
\* loop has slept for the retry delay and the next pass is calling get_timeline.
C30_Witness ==
    /\ tl_pc = "get_timeline"
    /\ caught
    /\ slept = {RetryDelaySeconds}
    /\ interval_minutes > 0

\* thread t is inside get_authorization_url's step
BuildsUrl(t) == pc[t] = "idle" /\ pc'[t] = "awaiting_callback"

\* C32: get_authorization_url sends no request (no token, revoke or API
\* request of the caller is counted or under way after it, and nothing is
\* issued by the platform) and leaves access_token, refresh_token,
\* token_expiry and the token store as they were.
C32_UrlIsPureConstruction ==
    [][\A t \in Threads :
         BuildsUrl(t)
         => /\ UNCHANGED <<access_token, refresh_token, token_expiry, store>>
            /\ UNCHANGED <<nsend, nexch, nref, data, hdr, ident, sent_verifier,
                           issued>>
            /\ data'[t] = Null /\ hdr'[t] = Null /\ resp'[t] = {}]_vars

\* C32's case: the URL was built while tokens were held.
C32_Witness ==
    \E t \in Threads : pc[t] = "awaiting_callback" /\ access_token # Null

\* C34: when timeline_interface has returned, every tweet of the timeline is
\* in exactly one of the two lists it returns, so the two lists together are
\* as long as the timeline.
C34_EveryPostInOneList ==
    tl_pc = "returned"
    => /\ \A i \in 1..Len(timeline) :
            (timeline[i] \in Range(RepliedTweets)) # (timeline[i] \in Range(ignored))
       /\ Len(responded_to) + Len(ignored) = Len(timeline)

\* C35: the text timeline_interface hands to reply_to_tweet is never empty.
C35_NoEmptyReplyPosted ==
    tl_pc = "reply_to_tweet" => The(reply_text) # <<>>

\* C33: over the passes of the loop no reply is posted to a tweet a reply
\* was posted to before.
C33_OneReplyPerTweet ==
    [][Len(posted') > Len(posted) => timeline[pos].id \notin replied_ever]_vars

\* thread t's step builds the Authorization header of a request about to be sent
BuildsHeader(t) == pc[t] # "api_send" /\ pc'[t] = "api_send"

\* C36: a request is sent only with the header built by the expiry check of
\* its send (or by the refresh that check started), and an OAuth access token
\* put into the header has no token_expiry before the instant of that check;
\* so for every send, the first, a re-send after a 429 sleep and the user
\* lookup of handle_callback.
C36_NoExpiredTokenSent ==
    [][\A t \in Threads :
         BuildsHeader(t)
         => /\ pc[t] \in {"check", "refresh_wait"}
            /\ (access_token' # Null
                => /\ hdr'[t] = access_token'
                   /\ token_expiry' # NoExpiry => token_expiry' >= now)]_vars

\* C36's case: after a 429 sleep the request is about to be sent again with an
\* access token that expires at this very instant.
C36_Witness ==
    \E t \in Threads :
        /\ pc[t] = "api_send"
        /\ n429[t] > 0
        /\ hdr[t] = access_token
        /\ access_token # Null
        /\ token_expiry = now

\* thread t's step takes the answer to its refresh request
RefreshAnswered(t) == pc[t] = "refresh_wait" /\ pc'[t] # "refresh_wait"

C38_SuccessfulRefreshYieldsToken ==
    [][\A t \in Threads :
         (RefreshAnswered(t) /\ cause'[t] # "refresh_failed")
         => /\ access_token' # Null
            /\ token_expiry' > now
            /\ pc'[t] = "api_send"
            /\ hdr'[t] = access_token']_vars

\* C39: a request is sent with the OAuth access token when one is held and
\* with the static bearer token otherwise, never without a token in its
\* Authorization header; with neither token the call returns None and nothing
\* is sent.
C39_RequestCarriesHeldToken ==
    /\ [](\A t \in Threads : pc[t] \in {"api_send", "api_wait"} => hdr[t] # Null)
    /\ [][\A t \in Threads :
            /\ nsend'[t] > nsend[t]
               => /\ hdr[t] # Null
                  /\ hdr[t] = (IF access_token # Null THEN access_token
                               ELSE bearer_token)
            /\ (/\ pc[t] \in {"check", "refresh_wait"}
                /\ pc'[t] \notin {"check", "refresh_wait", "refresh_send"}
                /\ access_token' = Null
                /\ bearer_token = Null)
               => /\ pc'[t] = "mar_ret"
                  /\ resp'[t] = {}
                  /\ nsend'[t] = nsend[t]]_vars

\* C39's case: without an access token the request has left with the static
\* bearer token.
C39_Witness ==
    \E t \in Threads :
        /\ pc[t] = "api_wait"
        /\ nsend[t] > 0
        /\ access_token = Null
        /\ hdr[t] = bearer_token
        /\ bearer_token # Null

\* the like and repost counts of a fetched metrics dict, under either naming
LikesOf(metrics) ==
    IF "likes" \in DOMAIN metrics THEN metrics.likes ELSE metrics.like_count
RepostsOf(metrics) ==
    IF "retweets" \in DOMAIN metrics THEN metrics.retweets ELSE metrics.retweet_count

\* C31: when a collection pass has returned it has gone through every tracked
\* post, whatever failed on the way, and for every post whose metrics fetch
\* succeeded (and whose files and row could be written) the table holds one
\* row, that of this pass, with the fetched like and repost counts.
C31_SnapshotPerFetchedPost ==
    eng_pc = "returned"
    => /\ Len(collected) = Len(posts)
       /\ \A i \in 1..Len(collected) :
            (collected[i].metrics # {} /\ collected[i].writable)
            => LET metrics == The(collected[i].metrics)
                   row == engagement_db[collected[i].post_id]
               IN  /\ row # {}
                   /\ The(row).likes = LikesOf(metrics)
                   /\ The(row).retweets = RepostsOf(metrics)

====
